---- MODULE Spec2Model ----
(***************************************************************************)
(* A model of file_tree (src/src/file_tree.pyx): the TreeNode entity, its  *)
(* four codecs, the pattern matcher, the two tree builders and the         *)
(* FileTree facade.                                                        *)
(*                                                                         *)
(* A Python str is a sequence of characters; a character is a one-token    *)
(* string.  The box-drawing characters are written as their code points.   *)
(* A TreeNode object lives in a heap (a sequence of records), a reference  *)
(* to it is its index; the root of a heap is index 1.                      *)
(***************************************************************************)
EXTENDS Naturals, Integers, Sequences, FiniteSets, TLC

VARIABLES
  tree,   \* the TreeNode objects of the node tree under study (root 1)
  op,     \* the operation last applied
  arg,    \* its arguments
  res,    \* what it returned
  fs,     \* the filesystem
  pc,     \* where the program is: "fs", "build", "build_depth", "ready"
  walk    \* the walk of a builder, and the facade it ends in

fsVars == <<fs, pc, walk>>
vars == <<tree, op, arg, res, fs, pc, walk>>

---------------------------------------------------------------------------
(* Bounds of the model.                                                    *)

MaxNodes == 4
MaxCap == 2
MaxEntries == 4
MaxDenied == 1
MaxFacadeEntries == 5
MaxSubtreeEntries == 4
MaxParts == 3
MaxLines == 4
MaxCwdEntries == 4
MaxAgreeEntries == 4
MaxRebuildEntries == 2

---------------------------------------------------------------------------
(* Characters and the str methods the program uses.                        *)

SP == " "
NL == "\n"
SLASH == "/"
BoxV == "u2502"
BoxT == "u251C"
BoxL == "u2514"
BoxH == "u2500"

\* None is the empty tuple; a reference to a dict object d is <<d>>
None == <<>>
Ref(d) == <<d>>

Whitespace == {SP, NL}

\* 4 spaces: one level of indentation in both text codecs
Indent4 == <<SP, SP, SP, SP>>
\* '|-- '
PipeConn == <<"|", "-", "-", SP>>
\* the two box-drawing connectors and the continuation prefix
LastConn == <<BoxL, BoxH, BoxH, SP>>
MidConn == <<BoxT, BoxH, BoxH, SP>>
ContPrefix == <<BoxV, SP, SP, SP>>

RECURSIVE Repeat(_, _)
Repeat(s, n) == IF n <= 0 THEN <<>> ELSE s \o Repeat(s, n - 1)

RECURSIVE LStrip(_)
LStrip(s) ==
  IF s /= <<>> /\ Head(s) \in Whitespace THEN LStrip(Tail(s)) ELSE s

RECURSIVE RStrip(_)
RStrip(s) ==
  IF s /= <<>> /\ s[Len(s)] \in Whitespace
  THEN RStrip(SubSeq(s, 1, Len(s) - 1)) ELSE s

Strip(s) == RStrip(LStrip(s))

StartsWith(s, p) == Len(s) >= Len(p) /\ SubSeq(s, 1, Len(p)) = p

EndsWith(s, p) ==
  Len(s) >= Len(p) /\ SubSeq(s, Len(s) - Len(p) + 1, Len(s)) = p

\* s.replace(p, ''): leftmost non-overlapping occurrences are removed
RECURSIVE Remove(_, _)
Remove(s, p) ==
  IF s = <<>> THEN <<>>
  ELSE IF StartsWith(s, p) THEN Remove(SubSeq(s, Len(p) + 1, Len(s)), p)
  ELSE <<Head(s)>> \o Remove(Tail(s), p)

\* s.splitlines(): the text between line breaks, no empty last line
RECURSIVE SplitLinesFrom(_, _)
SplitLinesFrom(s, cur) ==
  IF s = <<>> THEN (IF cur = <<>> THEN <<>> ELSE <<cur>>)
  ELSE IF Head(s) = NL THEN <<cur>> \o SplitLinesFrom(Tail(s), <<>>)
  ELSE SplitLinesFrom(Tail(s), Append(cur, Head(s)))

SplitLines(s) == SplitLinesFrom(s, <<>>)

Reverse(s) == [i \in 1..Len(s) |-> s[Len(s) + 1 - i]]

\* str < str, on the characters' order
CharRank(c) ==
  CASE c = SP -> 0 [] c = "." -> 1 [] c = SLASH -> 2
    [] c = "a" -> 10 [] c = "b" -> 11 [] c = "c" -> 12 [] c = "d" -> 13
    [] c = "t" -> 20 [] OTHER -> 30

RECURSIVE StrLess(_, _)
StrLess(s, t) ==
  IF t = <<>> THEN FALSE
  ELSE IF s = <<>> THEN TRUE
  ELSE IF Head(s) = Head(t) THEN StrLess(Tail(s), Tail(t))
  ELSE CharRank(Head(s)) < CharRank(Head(t))

---------------------------------------------------------------------------
(* TreeNode                                                                *)

\* the names nodes are given in this model
Names == {<<"a">>, <<"b">>}

\* TreeNode.__init__
NewNode(name, is_leaf) ==
  [name |-> name, is_leaf |-> is_leaf, children |-> <<>>,
   non_leaf_names |-> {}]

\* a heap holding the single node TreeNode(name, is_leaf)
NewTree(name, is_leaf) == <<NewNode(name, is_leaf)>>

\* TreeNode.add_child, with the child a fresh TreeNode(name, is_leaf):
\* the child is appended, and a Directory's name joins non_leaf_names
add_child(h, parent, name, is_leaf) ==
  LET id == Len(h) + 1
      p == h[parent]
      p2 == [p EXCEPT !.children = Append(@, id),
                      !.non_leaf_names =
                         IF is_leaf THEN @ ELSE @ \cup {name}]
  IN Append([h EXCEPT ![parent] = p2], NewNode(name, is_leaf))

get_name(h, n) == h[n].name
check_leaf(h, n) == h[n].is_leaf
get_children(h, n) == h[n].children

\* two node trees are the same: name, kind, children and their order
RECURSIVE SameTree(_, _, _, _)
SameTree(h1, n1, h2, n2) ==
  /\ h1[n1].name = h2[n2].name
  /\ h1[n1].is_leaf = h2[n2].is_leaf
  /\ Len(h1[n1].children) = Len(h2[n2].children)
  /\ \A i \in 1..Len(h1[n1].children) :
       SameTree(h1, h1[n1].children[i], h2, h2[n2].children[i])

\* sibling names are unique at every node
UniqueSiblings(h) ==
  \A n \in 1..Len(h) :
    \A i, j \in 1..Len(h[n].children) :
      h[h[n].children[i]].name = h[h[n].children[j]].name => i = j

---------------------------------------------------------------------------
(* Nested-mapping codec.  A dict is a sequence of <<key, value>> entries   *)
(* in insertion order; dict objects live in a heap of their own and a      *)
(* value is None or a reference to a dict.                                 *)

\* d[key] = val: an existing key keeps its position, a new one goes last
DictSet(d, key, val) ==
  IF \E i \in 1..Len(d) : d[i][1] = key
  THEN [i \in 1..Len(d) |-> IF d[i][1] = key THEN <<key, val>> ELSE d[i]]
  ELSE Append(d, <<key, val>>)

\* (variant) the children pushed in stored order
PushForwardDict(stack, children, parent_dict) ==
  stack \o [i \in 1..Len(children) |-> <<children[i], parent_dict>>]

\* the children are pushed in reverse, so that the first is popped first
PushReversedDict(stack, children, parent_dict) ==
  stack \o [i \in 1..Len(children) |->
              <<children[Len(children) + 1 - i], parent_dict>>]

\* one iteration of the loop of TreeNode.to_dict
\* s = [stack, dicts, result]; a stack entry is <<node, parent dict or None>>
ToDictStep(h, s) ==
  LET top == s.stack[Len(s.stack)]
      current_node == top[1]
      parent_dict == top[2]
      rest == SubSeq(s.stack, 1, Len(s.stack) - 1)
      leaf == check_leaf(h, current_node)
      name == get_name(h, current_node)
      \* {} for a Directory is a new dict object
      d1 == IF leaf THEN s.dicts ELSE Append(s.dicts, <<>>)
      inner == IF leaf THEN None ELSE Ref(Len(d1))
      \* node_dict = {name: inner}
      d2 == Append(d1, << <<name, inner>> >>)
      node_dict == Len(d2)
      d3 == IF parent_dict /= None
            THEN [d2 EXCEPT ![parent_dict[1]] = DictSet(@, name, inner)]
            ELSE d2
  IN [stack |-> IF leaf THEN rest
                ELSE PushReversedDict(rest, get_children(h, current_node),
                                      inner),
      dicts |-> d3,
      result |-> IF parent_dict = None THEN node_dict ELSE s.result]

RECURSIVE ToDictLoop(_, _)
ToDictLoop(h, s) ==
  IF s.stack = <<>> THEN s ELSE ToDictLoop(h, ToDictStep(h, s))

\* TreeNode.to_dict: [dicts |-> the dict heap, result |-> the dict returned]
to_dict(h, n) ==
  LET s == ToDictLoop(h, [stack |-> << <<n, None>> >>, dicts |-> <<>>,
                          result |-> 0])
  IN [dicts |-> s.dicts, result |-> s.result]

\* reversed(current_dict[name].items()) pushed as {child_name: child_dict}
\* wrappers: returns the new dict heap and the new stack
PushReversedItems(stack, dicts, items, current_node) ==
  LET k == Len(items)
      wrappers == [i \in 1..k |-> << items[k + 1 - i] >>]
  IN [dicts |-> dicts \o wrappers,
      stack |-> stack \o [i \in 1..k |-> <<current_node, Len(dicts) + i>>]]

\* one iteration of the loop of TreeNode.from_dict
\* s = [stack, dicts, heap]; a stack entry is <<parent node or 0, dict>>
FromDictStep(s) ==
  LET top == s.stack[Len(s.stack)]
      parent_node == top[1]
      current_dict == s.dicts[top[2]]
      rest == SubSeq(s.stack, 1, Len(s.stack) - 1)
      \* next(iter(current_dict))
      name == current_dict[1][1]
      value == current_dict[1][2]
      is_leaf == value = None
      heap2 == IF parent_node /= 0
               THEN add_child(s.heap, parent_node, name, is_leaf)
               ELSE NewTree(name, is_leaf)
      current_node == Len(heap2)
      pushed == IF is_leaf THEN [dicts |-> s.dicts, stack |-> rest]
                ELSE PushReversedItems(rest, s.dicts, s.dicts[value[1]],
                                       current_node)
  IN [stack |-> pushed.stack, dicts |-> pushed.dicts, heap |-> heap2]

RECURSIVE FromDictLoop(_)
FromDictLoop(s) ==
  IF s.stack = <<>> THEN s ELSE FromDictLoop(FromDictStep(s))

\* TreeNode.from_dict: the heap of the node tree it returns (root 1)
from_dict(dicts, node_dict) ==
  FromDictLoop([stack |-> << <<0, node_dict>> >>, dicts |-> dicts,
                heap |-> <<>>]).heap

---------------------------------------------------------------------------
(* Plain indented listing.                                                 *)

\* a result of an operation that may raise: the value, or the error
Ok(v) == [ok |-> TRUE, value |-> v]
ValueError == [ok |-> FALSE, value |-> <<>>]

\* (variant) the depth check without the cap on a Leaf
ReprSkippedNoFileCap(is_leaf, current_level, folder_depth, file_depth) ==
  ~is_leaf /\ folder_depth /= 0 /\ current_level > folder_depth

\* the depth check of to_repr: the popped node is skipped
ReprSkipped(is_leaf, current_level, folder_depth, file_depth) ==
  IF is_leaf
  THEN file_depth /= 0 /\ current_level > file_depth
  ELSE folder_depth /= 0 /\ current_level > folder_depth

\* the line to_repr writes for a node
ReprLine(current_level, name, is_leaf) ==
  (IF current_level > 0
   THEN <<NL>> \o Repeat(Indent4, current_level) \o PipeConn \o name
   ELSE name)
  \o (IF is_leaf THEN <<>> ELSE <<SLASH>>)

\* for child in reversed(children): stack.append((child, level + 1))
PushReversed(stack, children, level) ==
  stack \o [i \in 1..Len(children) |->
              <<children[Len(children) + 1 - i], level>>]

\* one iteration of the loop of TreeNode.to_repr; s = [stack, text]
ToReprStep(h, s, folder_depth, file_depth) ==
  LET top == s.stack[Len(s.stack)]
      current_node == top[1]
      current_level == top[2]
      rest == SubSeq(s.stack, 1, Len(s.stack) - 1)
      is_leaf == check_leaf(h, current_node)
  IN IF ReprSkipped(is_leaf, current_level, folder_depth, file_depth)
     THEN [stack |-> rest, text |-> s.text]
     ELSE [stack |-> IF is_leaf THEN rest
                     ELSE PushReversed(rest, get_children(h, current_node),
                                       current_level + 1),
           text |-> s.text \o ReprLine(current_level,
                                       get_name(h, current_node), is_leaf)]

RECURSIVE ToReprLoop(_, _, _, _)
ToReprLoop(h, s, folder_depth, file_depth) ==
  IF s.stack = <<>> THEN s.text
  ELSE ToReprLoop(h, ToReprStep(h, s, folder_depth, file_depth),
                  folder_depth, file_depth)

\* TreeNode.to_repr(level, depth)
to_repr(h, n, level, depth) ==
  LET folder_depth == depth[1]
      file_depth == depth[2]
  IN IF folder_depth < 0 \/ file_depth < 0 THEN ValueError
     ELSE Ok(ToReprLoop(h, [stack |-> << <<n, level>> >>, text |-> <<>>],
                        folder_depth, file_depth))

\* while len(node_stack) > level + 1: node_stack.pop()
TrimStack(node_stack, level) ==
  IF Len(node_stack) > level + 1
  THEN SubSeq(node_stack, 1, level + 1) ELSE node_stack

\* the body of the loop of from_repr for one line; s = [heap, node_stack]
FromReprLine(s, line) ==
  LET indent_level == Len(line) - Len(LStrip(line))
      level == indent_level \div 4
      line_content == Strip(line)
      is_leaf == ~EndsWith(line_content, <<SLASH>>)
      name == IF is_leaf
              THEN Strip(Remove(line_content, PipeConn))
              ELSE Strip(Remove(Remove(line_content, <<SLASH>>), PipeConn))
      node_stack == TrimStack(s.node_stack, level)
      parent_node == node_stack[Len(node_stack)]
      heap2 == add_child(s.heap, parent_node, name, is_leaf)
  IN [heap |-> heap2,
      node_stack |-> IF is_leaf THEN node_stack
                     ELSE Append(node_stack, Len(heap2))]

RECURSIVE FromReprLines(_, _)
FromReprLines(s, lines) ==
  IF lines = <<>> THEN s.heap
  ELSE FromReprLines(FromReprLine(s, Head(lines)), Tail(lines))

\* TreeNode.from_repr: the heap of the node tree returned (root 1), or
\* the empty heap for None
from_repr(repr_str) ==
  LET lines == SplitLines(Strip(repr_str))
  IN IF lines = <<>> THEN <<>>
     ELSE LET root_name == Remove(Strip(lines[1]), <<SLASH>>)
          IN FromReprLines([heap |-> NewTree(root_name, FALSE),
                            node_stack |-> <<1>>], Tail(lines))

---------------------------------------------------------------------------
(* Box-drawing diagram.                                                    *)

\* (variant) the children filtered with the Directory cap one level lower
RECURSIVE ValidChildrenOffByOne(_, _, _, _, _)
ValidChildrenOffByOne(h, children, current_level, folder_depth, file_depth) ==
  IF children = <<>> THEN <<>>
  ELSE LET child == Head(children)
           keep == IF h[child].is_leaf
                   THEN file_depth = 0 \/ current_level + 1 <= file_depth
                   ELSE folder_depth = 0 \/ current_level + 1 < folder_depth
           others == ValidChildrenOffByOne(h, Tail(children), current_level,
                                           folder_depth, file_depth)
       IN IF keep THEN <<child>> \o others ELSE others

\* the children of a Directory that pass the depth caps of to_md, in
\* stored order (validate_stack)
RECURSIVE ValidChildren(_, _, _, _, _)
ValidChildren(h, children, current_level, folder_depth, file_depth) ==
  IF children = <<>> THEN <<>>
  ELSE LET child == Head(children)
           keep == IF check_leaf(h, child)
                   THEN file_depth = 0 \/ current_level + 1 <= file_depth
                   ELSE folder_depth = 0 \/ current_level + 1 <= folder_depth
           others == ValidChildren(h, Tail(children), current_level,
                                   folder_depth, file_depth)
       IN IF keep THEN <<child>> \o others ELSE others

\* (variant) the child flagged is_last is pushed after the others
PushChildrenMdLastOnTop(stack, children, level, new_prefix) ==
  LET k == Len(children)
  IN IF k = 0 THEN stack
     ELSE stack \o [i \in 1..(k - 1) |->
                      <<children[k - i], level, FALSE, new_prefix>>]
                \o << <<children[k], level, TRUE, new_prefix>> >>

\* the last of the children is pushed first with is_last = True, then the
\* others from the last but one to the first with is_last = False
PushChildrenMd(stack, children, level, new_prefix) ==
  LET k == Len(children)
  IN IF k = 0 THEN stack
     ELSE stack \o << <<children[k], level, TRUE, new_prefix>> >>
                \o [i \in 1..(k - 1) |->
                      <<children[k - i], level, FALSE, new_prefix>>]

\* what precedes the name on a line of to_md
MdIndent(current_prefix, current_level, current_is_last) ==
  current_prefix \o
    (IF current_level > 0
     THEN (IF current_is_last THEN LastConn ELSE MidConn)
     ELSE <<>>)

\* the prefix of the lines below a Directory
MdNewPrefix(current_prefix, current_level, current_is_last, prefix) ==
  IF current_level > 0
  THEN current_prefix \o (IF current_is_last THEN Indent4 ELSE ContPrefix)
  ELSE prefix

\* one iteration of the loop of TreeNode.to_md; s = [stack, text]
ToMdStep(h, s, prefix, folder_depth, file_depth) ==
  LET top == s.stack[Len(s.stack)]
      current_node == top[1]
      current_level == top[2]
      current_is_last == top[3]
      current_prefix == top[4]
      rest == SubSeq(s.stack, 1, Len(s.stack) - 1)
      is_leaf == check_leaf(h, current_node)
      indent == MdIndent(current_prefix, current_level, current_is_last)
      line == indent \o get_name(h, current_node)
                \o (IF is_leaf THEN <<>> ELSE <<SLASH>>)
      new_prefix == MdNewPrefix(current_prefix, current_level,
                                current_is_last, prefix)
      children == IF folder_depth = 0 /\ file_depth = 0
                  THEN get_children(h, current_node)
                  ELSE ValidChildren(h, get_children(h, current_node),
                                     current_level, folder_depth, file_depth)
      stack2 == IF is_leaf THEN rest
                ELSE PushChildrenMd(rest, children, current_level + 1,
                                    new_prefix)
  IN [stack |-> stack2,
      text |-> s.text \o line \o (IF stack2 /= <<>> THEN <<NL>> ELSE <<>>)]

RECURSIVE ToMdLoop(_, _, _, _, _)
ToMdLoop(h, s, prefix, folder_depth, file_depth) ==
  IF s.stack = <<>> THEN s.text
  ELSE ToMdLoop(h, ToMdStep(h, s, prefix, folder_depth, file_depth),
                prefix, folder_depth, file_depth)

\* TreeNode.to_md(level, is_last, prefix, depth)
to_md(h, n, level, is_last, prefix, depth) ==
  LET folder_depth == depth[1]
      file_depth == depth[2]
  IN IF folder_depth < 0 \/ file_depth < 0 THEN ValueError
     ELSE Ok(ToMdLoop(h, [stack |-> << <<n, level, is_last, prefix>> >>,
                          text |-> <<>>],
                      prefix, folder_depth, file_depth))

\* the body of the loop of from_md for one line; s = [heap, node_stack]
FromMdLine(s, line) ==
  LET indent_level == Len(line) - Len(LStrip(Remove(line, <<BoxV>>)))
      level == indent_level \div 4
      line_content == Strip(line)
      is_leaf == ~EndsWith(line_content, <<SLASH>>)
      name == Strip(Remove(Remove(Remove(Remove(line_content, <<BoxV>>),
                                         LastConn), MidConn), <<SLASH>>))
      node_stack == TrimStack(s.node_stack, level)
      parent_node == node_stack[Len(node_stack)]
      heap2 == add_child(s.heap, parent_node, name, is_leaf)
  IN [heap |-> heap2,
      node_stack |-> IF is_leaf THEN node_stack
                     ELSE Append(node_stack, Len(heap2))]

RECURSIVE FromMdLines(_, _)
FromMdLines(s, lines) ==
  IF lines = <<>> THEN s.heap
  ELSE FromMdLines(FromMdLine(s, Head(lines)), Tail(lines))

\* TreeNode.from_md: the heap of the node tree returned (root 1), or the
\* empty heap for None
from_md(md_str) ==
  LET lines == SplitLines(Strip(md_str))
  IN IF lines = <<>> THEN <<>>
     ELSE LET root_name == Remove(Strip(lines[1]), <<SLASH>>)
          IN FromMdLines([heap |-> NewTree(root_name, FALSE),
                          node_stack |-> <<1>>], Tail(lines))

---------------------------------------------------------------------------
(* Pattern matcher.                                                        *)

\* fnmatch.fnmatch(name, pat) for patterns of literal characters, `*` (any
\* run of characters, `/` included) and `?` (any one character)
RECURSIVE fnmatch(_, _)
fnmatch(name, pat) ==
  IF pat = <<>> THEN name = <<>>
  ELSE IF Head(pat) = "*"
       THEN fnmatch(name, Tail(pat))
            \/ (name /= <<>> /\ fnmatch(Tail(name), pat))
  ELSE IF Head(pat) = "?"
       THEN name /= <<>> /\ fnmatch(Tail(name), Tail(pat))
  ELSE name /= <<>> /\ Head(name) = Head(pat)
       /\ fnmatch(Tail(name), Tail(pat))

\* pattern.startswith('!')
IsNegation(pattern) == pattern /= <<>> /\ Head(pattern) = "!"

\* the path the patterns are matched against: a directory gets a
\* trailing separator; is_dir is os.path.isdir(path)
MatchedPath(path, is_dir) ==
  IF is_dir /\ ~EndsWith(path, <<SLASH>>) THEN path \o <<SLASH>> ELSE path

\* (variant) the patterns tried in declaration order
ScanOrderForward(ignore_patterns) == ignore_patterns

\* the order in which the patterns are tried: reversed(ignore_patterns)
ScanOrder(ignore_patterns) == Reverse(ignore_patterns)

\* the loop of _should_ignore over the patterns in the order they are tried
RECURSIVE ScanPatterns(_, _)
ScanPatterns(path, patterns) ==
  IF patterns = <<>> THEN FALSE
  ELSE LET pattern == Head(patterns)
       IN IF IsNegation(pattern)
          THEN (IF fnmatch(path, Tail(pattern)) THEN FALSE
                ELSE ScanPatterns(path, Tail(patterns)))
          ELSE (IF fnmatch(path, pattern) THEN TRUE
                ELSE ScanPatterns(path, Tail(patterns)))

\* _should_ignore(path, ignore_patterns); None is the empty list
should_ignore(path, is_dir, ignore_patterns) ==
  ScanPatterns(MatchedPath(path, is_dir), ScanOrder(ignore_patterns))

---------------------------------------------------------------------------
(* The filesystem the builders walk: a sequence of entries, entry 1 the    *)
(* walk root; the children of a directory are in the order os.listdir      *)
(* returns them.  A path is a str; root_path is one component long.        *)

RootPath == <<"r">>

FsRoot == [name |-> RootPath, is_dir |-> TRUE, children |-> <<>>,
           denied |-> FALSE]

\* os.path.join(a, b) for a relative name b
PathJoin(a, b) == IF EndsWith(a, <<SLASH>>) THEN a \o b ELSE a \o <<SLASH>> \o b

\* path.split('/')
RECURSIVE SplitPathFrom(_, _)
SplitPathFrom(path, cur) ==
  IF path = <<>> THEN <<cur>>
  ELSE IF Head(path) = SLASH THEN <<cur>> \o SplitPathFrom(Tail(path), <<>>)
  ELSE SplitPathFrom(Tail(path), Append(cur, Head(path)))

SplitPath(path) == SplitPathFrom(path, <<>>)

\* os.path.basename
BaseName(path) == LET parts == SplitPath(path) IN parts[Len(parts)]

\* (variant) the name of the item alone is matched against the patterns
RelPathNameOnly(item_path, root_path) == BaseName(item_path)

\* os.path.relpath(item_path, root_path) for an item_path below root_path
RelPath(item_path, root_path) ==
  SubSeq(item_path, Len(root_path) + 2, Len(item_path))

FsChild(f, e, name) ==
  IF \E i \in 1..Len(f[e].children) : f[f[e].children[i]].name = name
  THEN f[e].children[CHOOSE i \in 1..Len(f[e].children) :
                        f[f[e].children[i]].name = name]
  ELSE 0

RECURSIVE FsWalk(_, _, _)
FsWalk(f, e, parts) ==
  IF parts = <<>> THEN e
  ELSE IF ~f[e].is_dir \/ FsChild(f, e, Head(parts)) = 0 THEN 0
  ELSE FsWalk(f, FsChild(f, e, Head(parts)), Tail(parts))

\* the entry a path names, or 0: paths are resolved from the directory
\* that holds the walk root
FsEntry(f, path) ==
  LET parts == SplitPath(path)
  IN IF f = <<>> \/ Head(parts) /= f[1].name THEN 0
     ELSE FsWalk(f, 1, Tail(parts))

\* os.path.exists, os.path.isdir, os.listdir
PathExists(f, path) == FsEntry(f, path) /= 0
IsDir(f, path) == FsEntry(f, path) /= 0 /\ f[FsEntry(f, path)].is_dir
ListDir(f, path) ==
  LET e == FsEntry(f, path)
  IN [i \in 1..Len(f[e].children) |-> f[f[e].children[i]].name]
\* os.listdir raises PermissionError
ListDenied(f, path) == f[FsEntry(f, path)].denied

\* os.path.isdir(relative_path) inside _should_ignore: the relative path is
\* resolved from the working directory of the process, which is the walk
\* root or a directory that holds no entry of these names
IsDirFromCwd(f, root_path, relative_path, cwd_at_root) ==
  cwd_at_root /\ IsDir(f, PathJoin(root_path, relative_path))

---------------------------------------------------------------------------
(* Tree builders.  A walk is [kind, root_path, depth, ignore, cwd_at_root, *)
(* stack, heap, listed, listed_after]: heap holds the nodes built so far   *)
(* (root 1), listed the paths os.listdir has been called with, in order,   *)
(* and listed_after those of the walk TrimmedTree ends with.               *)

\* the body of the for loop of _build_tree for the items of one directory
RECURSIVE BuildItems(_, _, _, _, _)
BuildItems(f, w, current_node, current_path, items) ==
  IF items = <<>> THEN w
  ELSE
    LET item == Head(items)
        item_path == PathJoin(current_path, item)
        relative_path == RelPath(item_path, w.root_path)
        ignored == should_ignore(relative_path,
                      IsDirFromCwd(f, w.root_path, relative_path,
                                   w.cwd_at_root),
                      w.ignore)
        heap2 == add_child(w.heap, current_node, item, ~IsDir(f, item_path))
        w2 == IF ignored THEN w
              ELSE IF IsDir(f, item_path)
              THEN [w EXCEPT !.heap = heap2,
                             !.stack = Append(@, <<Len(heap2), item_path>>)]
              ELSE [w EXCEPT !.heap = heap2]
    IN BuildItems(f, w2, current_node, current_path, Tail(items))

\* (variant) the PermissionError is not caught: the walk ends there
BuildStepEndsAtDenied(f, w) ==
  LET top == w.stack[Len(w.stack)]
      current_node == top[1]
      current_path == top[2]
      w1 == [w EXCEPT !.stack = SubSeq(@, 1, Len(@) - 1),
                      !.listed = Append(@, current_path)]
  IN IF ListDenied(f, current_path) THEN [w1 EXCEPT !.stack = <<>>]
     ELSE BuildItems(f, w1, current_node, current_path,
                     ListDir(f, current_path))

\* one iteration of the while loop of _build_tree
BuildStep(f, w) ==
  LET top == w.stack[Len(w.stack)]
      current_node == top[1]
      current_path == top[2]
      w1 == [w EXCEPT !.stack = SubSeq(@, 1, Len(@) - 1),
                      !.listed = Append(@, current_path)]
  IN IF ListDenied(f, current_path) THEN w1
     ELSE BuildItems(f, w1, current_node, current_path,
                     ListDir(f, current_path))

RECURSIVE BuildLoop(_, _)
BuildLoop(f, w) == IF w.stack = <<>> THEN w ELSE BuildLoop(f, BuildStep(f, w))

\* the walk _build_tree starts with, for the root node FileTree.__init__
\* makes
NewWalk(root_path, ignore, cwd_at_root, listed) ==
  [root_path |-> root_path, depth |-> <<0, 0>>, ignore |-> ignore,
   cwd_at_root |-> cwd_at_root,
   stack |-> << <<1, root_path>> >>,
   heap |-> NewTree(BaseName(root_path), FALSE),
   listed |-> listed, kind |-> "FileTree", listed_after |-> <<>>]

\* (variant) a directory item pruned only beyond folder_depth
DirPrunedLate(folder_depth, current_folder_depth) ==
  folder_depth /= 0 /\ current_folder_depth > folder_depth

\* the depth test on a directory item of _build_tree_with_depth
DirPruned(folder_depth, current_folder_depth) ==
  folder_depth /= 0 /\ current_folder_depth = folder_depth

\* (variant) a file item pruned only beyond file_depth
FilePrunedLate(file_depth, current_folder_depth) ==
  file_depth /= 0 /\ current_folder_depth > file_depth

\* the depth test on a file item of _build_tree_with_depth
FilePruned(file_depth, current_folder_depth) ==
  file_depth /= 0 /\ current_folder_depth >= file_depth

\* the body of the for loop of _build_tree_with_depth
RECURSIVE BuildItemsWithDepth(_, _, _, _, _, _)
BuildItemsWithDepth(f, w, current_node, current_path, current_folder_depth, items) ==
  IF items = <<>> THEN w
  ELSE
    LET item == Head(items)
        item_path == PathJoin(current_path, item)
        relative_path == RelPath(item_path, w.root_path)
        ignored == should_ignore(relative_path,
                      IsDirFromCwd(f, w.root_path, relative_path,
                                   w.cwd_at_root),
                      w.ignore)
        heap2 == add_child(w.heap, current_node, item, ~IsDir(f, item_path))
        w2 == IF ignored THEN w
              ELSE IF IsDir(f, item_path)
              THEN (IF DirPruned(w.depth[1], current_folder_depth) THEN w
                    ELSE [w EXCEPT !.heap = heap2,
                                   !.stack = Append(@,
                                       <<Len(heap2), item_path,
                                         current_folder_depth + 1>>)])
              ELSE (IF FilePruned(w.depth[2], current_folder_depth) THEN w
                    ELSE [w EXCEPT !.heap = heap2])
    IN BuildItemsWithDepth(f, w2, current_node, current_path,
                           current_folder_depth, Tail(items))

\* one iteration of the while loop of _build_tree_with_depth
BuildStepWithDepth(f, w) ==
  LET top == w.stack[Len(w.stack)]
      current_node == top[1]
      current_path == top[2]
      current_folder_depth == top[3]
      popped == [w EXCEPT !.stack = SubSeq(@, 1, Len(@) - 1)]
      w1 == [popped EXCEPT !.listed = Append(@, current_path)]
  IN IF w.depth[1] /= 0 /\ current_folder_depth > w.depth[1] THEN popped
     ELSE IF ListDenied(f, current_path) THEN w1
     ELSE BuildItemsWithDepth(f, w1, current_node, current_path,
                              current_folder_depth, ListDir(f, current_path))

\* the walk _build_tree_with_depth starts with, for the root node
\* TrimmedTree makes
NewWalkWithDepth(root_path, depth, ignore, cwd_at_root) ==
  [root_path |-> root_path, depth |-> depth, ignore |-> ignore,
   cwd_at_root |-> cwd_at_root,
   stack |-> << <<1, root_path, 0>> >>,
   heap |-> NewTree(BaseName(root_path), FALSE),
   listed |-> <<>>, kind |-> "TrimmedTree", listed_after |-> <<>>]

\* FileTree(root_path, ignore=['*']), with which TrimmedTree ends: the walk
\* it makes, run to its end
EmptyTreeWalk(f, w) ==
  BuildLoop(f, NewWalk(w.root_path, << <<"*">> >>, w.cwd_at_root, <<>>))

---------------------------------------------------------------------------
(* Actions on a node tree.                                                 *)

Idle == [kind |-> "none"]

\* a TreeNode is constructed; the root of the tree under study
Init ==
  /\ \E name \in Names, is_leaf \in BOOLEAN : tree = NewTree(name, is_leaf)
  /\ op = "new"
  /\ arg = None
  /\ res = Idle
  /\ fs = <<>>
  /\ pc = "tree"
  /\ walk = <<>>

\* parent.add_child(TreeNode(name, is_leaf)) on a Directory of the tree;
\* nodes are added level by level (parents in non-decreasing order)
AddChild ==
  /\ Len(tree) < MaxNodes
  /\ \E parent \in 1..Len(tree), name \in Names, is_leaf \in BOOLEAN :
       /\ ~tree[parent].is_leaf
       /\ \A n \in 1..Len(tree) :
            \A i \in 1..Len(tree[n].children) : n <= parent
       /\ tree' = add_child(tree, parent, name, is_leaf)
  /\ op' = "add_child"
  /\ arg' = None
  /\ res' = Idle
  /\ UNCHANGED fsVars

\* no operation's result is held: the operations below are applied to a
\* tree as it was built, and leave it as it is
AtRest == res = Idle

\* TreeNode.from_dict(root.to_dict())
DictRoundTrip ==
  /\ AtRest
  /\ LET d == to_dict(tree, 1)
     IN res' = [kind |-> "tree", dict |-> d,
                back |-> from_dict(d.dicts, d.result)]
  /\ op' = "dict_round_trip"
  /\ arg' = None
  /\ UNCHANGED <<tree, fs, pc, walk>>

\* TreeNode.from_repr(root.to_repr(depth=(0, 0)))
ReprRoundTrip ==
  /\ AtRest
  /\ LET t == to_repr(tree, 1, 0, <<0, 0>>)
     IN res' = [kind |-> "tree", text |-> t.value, back |-> from_repr(t.value)]
  /\ op' = "repr_round_trip"
  /\ arg' = None
  /\ UNCHANGED <<tree, fs, pc, walk>>

\* TreeNode.from_md(root.to_md(depth=(0, 0)))
MdRoundTrip ==
  /\ AtRest
  /\ LET t == to_md(tree, 1, 0, FALSE, <<>>, <<0, 0>>)
     IN res' = [kind |-> "tree", text |-> t.value, back |-> from_md(t.value)]
  /\ op' = "md_round_trip"
  /\ arg' = None
  /\ UNCHANGED <<tree, fs, pc, walk>>

\* the depth pairs the encoders are given here
Caps == (0..MaxCap) \X (0..MaxCap)

\* root.to_repr(level=0, depth=depth)
ToRepr ==
  /\ AtRest
  /\ \E depth \in Caps :
       /\ arg' = depth
       /\ res' = [kind |-> "text", out |-> to_repr(tree, 1, 0, depth)]
  /\ op' = "to_repr"
  /\ UNCHANGED <<tree, fs, pc, walk>>

\* root.to_md(depth=depth)
ToMd ==
  /\ AtRest
  /\ \E depth \in Caps :
       /\ arg' = depth
       /\ res' = [kind |-> "text",
                  out |-> to_md(tree, 1, 0, FALSE, <<>>, depth)]
  /\ op' = "to_md"
  /\ UNCHANGED <<tree, fs, pc, walk>>

Next ==
  \/ AddChild
  \/ DictRoundTrip
  \/ ReprRoundTrip
  \/ MdRoundTrip
  \/ ToRepr
  \/ ToMd

Spec == Init /\ [][Next]_vars

---------------------------------------------------------------------------
\* C1: from_dict(to_dict(T)) is T (names, Leaf/Directory tags, parent/child
\* relation and child order) for every node tree T with unique sibling
\* names; an empty Directory stays a Directory.
DictRoundTripSame ==
  (op = "dict_round_trip" /\ UniqueSiblings(tree))
    => SameTree(tree, 1, res.back, 1)

\* a tree with an empty Directory, a Leaf and a nested level has made the
\* round trip
DictRoundTripWitness ==
  /\ op = "dict_round_trip"
  /\ UniqueSiblings(tree)
  /\ Len(tree) = MaxNodes
  /\ \E n \in 2..Len(tree) : ~tree[n].is_leaf /\ tree[n].children = <<>>
  /\ \E n \in 2..Len(tree) : tree[n].is_leaf
  /\ \E n \in 2..Len(tree) : tree[n].children /= <<>>
  /\ Len(tree[1].children) >= 2

\* C2: from_repr(to_repr(T, depth=(0,0))) is T for every node tree T (stated
\* here for the trees rooted at a Directory, as the tree of a facade is): a
\* node that follows a Directory sibling is a child of the sibling's parent,
\* not of the sibling.
ReprRoundTripSame ==
  (op = "repr_round_trip" /\ ~tree[1].is_leaf)
    => SameTree(tree, 1, res.back, 1)

\* C3: from_md(to_md(T, depth=(0,0))) is T for every node tree T, the kind
\* of the root included.
MdRoundTripSame ==
  op = "md_round_trip" => SameTree(tree, 1, res.back, 1)

---------------------------------------------------------------------------
(* The pattern matcher on its own: a path, whether it is a directory, and  *)
(* a list of patterns are given, and _should_ignore is called.             *)

MaxPatterns == 2

KeepLog == <<"k", "e", "e", "p", ".", "l", "o", "g">>
StarLog == <<"*", ".", "l", "o", "g">>

IgnorePaths ==
  {KeepLog, <<"a", ".", "l", "o", "g">>, <<"k", "e", "e", "p">>, <<"b">>,
   <<"b", SLASH, "a">>}

PatternPool ==
  {StarLog, <<"!">> \o KeepLog, <<"!">> \o StarLog, <<"k", "?", "?", "p">>,
   <<"b", SLASH>>, <<"!", "b", "*">>, <<"*">>}

PatternLists == UNION {[1..n -> PatternPool] : n \in 0..MaxPatterns}

InitIgnore ==
  /\ tree = <<>>
  /\ op = "input"
  /\ \E path \in IgnorePaths, is_dir \in BOOLEAN, patterns \in PatternLists :
        arg = <<path, is_dir, patterns>>
  /\ res = Idle
  /\ fs = <<>>
  /\ pc = "input"
  /\ walk = <<>>

ShouldIgnore ==
  /\ op = "input"
  /\ op' = "should_ignore"
  /\ res' = [kind |-> "bool", value |-> should_ignore(arg[1], arg[2], arg[3])]
  /\ UNCHANGED <<tree, arg, fs, pc, walk>>

NextIgnore == ShouldIgnore

SpecIgnore == InitIgnore /\ [][NextIgnore]_vars

\* a pattern matches the path: its text, without the `!` of a negation
PatternMatches(path, pattern) ==
  fnmatch(path, IF IsNegation(pattern) THEN Tail(pattern) ELSE pattern)

\* the patterns of the call that match the path it tests
Matching ==
  {i \in 1..Len(arg[3]) :
     PatternMatches(MatchedPath(arg[1], arg[2]), arg[3][i])}

LastMatching == CHOOSE i \in Matching : \A j \in Matching : j <= i

\* C6: should_ignore is decided by the last-declared pattern that matches:
\* true for a plain pattern, false for a negation, false when none matches;
\* ["*.log", "!keep.log"] keeps the file keep.log and ["!keep.log", "*.log"]
\* does not.
LastMatchDecides ==
  op = "should_ignore" =>
     /\ res.value = (Matching /= {} /\ ~IsNegation(arg[3][LastMatching]))
     /\ (arg[1] = KeepLog /\ ~arg[2]
           /\ arg[3] = <<StarLog, <<"!">> \o KeepLog>>) => ~res.value
     /\ (arg[1] = KeepLog /\ ~arg[2]
           /\ arg[3] = <<<<"!">> \o KeepLog, StarLog>>) => res.value

\* a plain pattern and a negation both match, the plain one declared last,
\* and the path is ignored
LaterPlainPatternWins ==
  /\ op = "should_ignore"
  /\ arg[1] = KeepLog
  /\ ~arg[2]
  /\ arg[3] = <<<<"!">> \o KeepLog, StarLog>>
  /\ res.value

---------------------------------------------------------------------------
(* The builders, one iteration of the walk at a time.                      *)

BuildNames == {<<"a">>, <<"b">>}

\* the ignore lists and the working directories a build is given
TrimmedEnvs == {<< <<>>, TRUE >>, << << <<"b">> >>, TRUE >>}

BuildEnvs ==
  TrimmedEnvs \cup {<< << <<"b", SLASH>>, <<"!", "b", SLASH, "a">> >>, TRUE >>}

\* the depth pairs TrimmedTree is given
BuildCaps == (0..MaxCap) \X (0..MaxCap)

NoWalk == [kind |-> "none"]

InitBuild ==
  /\ tree = <<>>
  /\ op = "fs"
  /\ arg = None
  /\ res = Idle
  /\ fs = <<FsRoot>>
  /\ pc = "fs"
  /\ walk = NoWalk

\* the environment adds a file or a directory; names are unique in a
\* directory, a directory may deny its listing; entries are added level by
\* level
FsCreateIn(max, dir_names, file_names, max_denied) ==
  /\ pc = "fs"
  /\ Len(fs) < max
  /\ \E parent \in 1..Len(fs), name \in dir_names \cup file_names,
        is_dir, denied \in BOOLEAN :
       /\ name \in (IF is_dir THEN dir_names ELSE file_names)
       /\ fs[parent].is_dir
       /\ \A n \in 1..Len(fs) : fs[n].children /= <<>> => n <= parent
       /\ FsChild(fs, parent, name) = 0
       /\ denied =>
            /\ is_dir
            /\ Cardinality({n \in 1..Len(fs) : fs[n].denied}) < max_denied
       /\ fs' = Append([fs EXCEPT ![parent].children = Append(@, Len(fs) + 1)],
                       [name |-> name, is_dir |-> is_dir, children |-> <<>>,
                        denied |-> denied])
  /\ UNCHANGED <<tree, op, arg, res, pc, walk>>

FsCreate == FsCreateIn(MaxEntries, BuildNames, BuildNames, MaxDenied)

\* FileTree(root_path, ignore): the existence check and the start of
\* _build_tree
NewFileTreeIn(envs) ==
  /\ pc = "fs"
  /\ PathExists(fs, RootPath)
  /\ \E env \in envs :
       walk' = NewWalk(RootPath, env[1], env[2], <<>>)
  /\ pc' = "build"
  /\ op' = "FileTree"
  /\ UNCHANGED <<tree, arg, res, fs>>

NewFileTree == NewFileTreeIn(BuildEnvs)

\* one iteration of _build_tree; FileTree returns when the stack is empty
BuildTreeStep ==
  /\ pc = "build"
  /\ walk' = BuildStep(fs, walk)
  /\ pc' = IF walk'.stack = <<>> THEN "ready" ELSE "build"
  /\ UNCHANGED <<tree, op, arg, res, fs>>

\* TrimmedTree(root_path, depth, ignore): the start of
\* _build_tree_with_depth
NewTrimmedTree ==
  /\ pc = "fs"
  /\ \E depth \in BuildCaps, env \in TrimmedEnvs :
       walk' = NewWalkWithDepth(RootPath, depth, env[1], env[2])
  /\ pc' = "build_depth"
  /\ op' = "TrimmedTree"
  /\ UNCHANGED <<tree, arg, res, fs>>

\* TrimmedTree after _build_tree_with_depth: FileTree(root_path, ['*']) is
\* built and its root_node replaced by the one the walk built
FinishTrimmedTree(f, w) ==
  [w EXCEPT !.listed_after = EmptyTreeWalk(f, w).listed]

\* one iteration of _build_tree_with_depth; when the stack is empty
\* TrimmedTree makes the facade and returns
BuildDepthStep ==
  /\ pc = "build_depth"
  /\ LET w == BuildStepWithDepth(fs, walk)
     IN IF w.stack = <<>>
        THEN walk' = FinishTrimmedTree(fs, w) /\ pc' = "ready"
        ELSE walk' = w /\ pc' = "build_depth"
  /\ UNCHANGED <<tree, op, arg, res, fs>>

NextBuild ==
  \/ FsCreate
  \/ NewFileTree
  \/ BuildTreeStep
  \/ NewTrimmedTree
  \/ BuildDepthStep

SpecBuild == InitBuild /\ [][NextBuild]_vars

\* a build under a directory-only pattern, started from the walk root or
\* from a working directory elsewhere
CwdEnvs == {<< << <<"b", SLASH>> >>, cwd_at_root >> : cwd_at_root \in BOOLEAN}

CwdFsCreate == FsCreateIn(MaxCwdEntries, BuildNames, BuildNames, 0)

CwdFileTree == NewFileTreeIn(CwdEnvs)

NextCwd ==
  \/ CwdFsCreate
  \/ CwdFileTree
  \/ BuildTreeStep

SpecCwd == InitBuild /\ [][NextCwd]_vars

---------------------------------------------------------------------------
(* Reading an encoder's output: the <<level, name, is_leaf>> of each line. *)

RECURSIVE LeadingSpaces(_)
LeadingSpaces(line) ==
  IF line /= <<>> /\ Head(line) = SP THEN 1 + LeadingSpaces(Tail(line))
  ELSE 0

\* the position of the first connector character of a diagram line, or 0
RECURSIVE ConnectorAt(_, _)
ConnectorAt(line, i) ==
  IF i > Len(line) THEN 0
  ELSE IF line[i] \in {BoxT, BoxL} THEN i
  ELSE ConnectorAt(line, i + 1)

NameAndKind(level, rest) ==
  IF EndsWith(rest, <<SLASH>>)
  THEN <<level, SubSeq(rest, 1, Len(rest) - 1), FALSE>>
  ELSE <<level, rest, TRUE>>

ListingLine(line, i) ==
  IF i = 1 THEN NameAndKind(0, line)
  ELSE LET k == LeadingSpaces(line)
       IN NameAndKind(k \div 4, SubSeq(line, k + 5, Len(line)))

DiagramLine(line, i) ==
  IF i = 1 THEN NameAndKind(0, line)
  ELSE LET c == ConnectorAt(line, 1)
       IN NameAndKind((c - 1) \div 4 + 1, SubSeq(line, c + 4, Len(line)))

ListingNodes(text) ==
  LET lines == SplitLines(text)
  IN [i \in 1..Len(lines) |-> ListingLine(lines[i], i)]

DiagramNodes(text) ==
  LET lines == SplitLines(text)
  IN [i \in 1..Len(lines) |-> DiagramLine(lines[i], i)]

\* the nodes an encoder's output shows, as <<level, name, is_leaf>>
ShownNodes ==
  IF op = "to_repr" THEN ListingNodes(res.out.value)
  ELSE DiagramNodes(res.out.value)

(* The node tree itself: levels, ancestors, preorder.                      *)

ParentOf(h, n) ==
  IF \E p \in 1..Len(h) : \E i \in 1..Len(h[p].children) : h[p].children[i] = n
  THEN CHOOSE p \in 1..Len(h) :
         \E i \in 1..Len(h[p].children) : h[p].children[i] = n
  ELSE 0

RECURSIVE LevelOf(_, _)
LevelOf(h, n) ==
  IF ParentOf(h, n) = 0 THEN 0 ELSE 1 + LevelOf(h, ParentOf(h, n))

RECURSIVE AncestorsOrSelf(_, _)
AncestorsOrSelf(h, n) ==
  IF ParentOf(h, n) = 0 THEN {n} ELSE {n} \cup AncestorsOrSelf(h, ParentOf(h, n))

RECURSIVE PreorderOf(_, _)
RECURSIVE PreorderAll(_, _)
PreorderOf(h, n) == <<n>> \o PreorderAll(h, h[n].children)
PreorderAll(h, ns) ==
  IF ns = <<>> THEN <<>> ELSE PreorderOf(h, Head(ns)) \o PreorderAll(h, Tail(ns))

\* a node is within the caps: a Leaf within file_depth, a Directory within
\* folder_depth (0: no cap)
WithinCaps(h, n, depth) ==
  IF h[n].is_leaf
  THEN depth[2] = 0 \/ LevelOf(h, n) <= depth[2]
  ELSE depth[1] = 0 \/ LevelOf(h, n) <= depth[1]

\* the nodes that are within the caps and lie below no node that is not
KeptNodes(h, depth) ==
  LET keep(n) == \A m \in AncestorsOrSelf(h, n) : WithinCaps(h, m, depth)
  IN SelectSeq(PreorderOf(h, 1), keep)

ExpectedShown(h, depth) ==
  LET kept == KeptNodes(h, depth)
  IN [i \in 1..Len(kept) |->
        <<LevelOf(h, kept[i]), h[kept[i]].name, h[kept[i]].is_leaf>>]

Encoded == op \in {"to_repr", "to_md"}

\* C7 as stated: with file_depth > 0 the output of to_repr and of to_md holds
\* no Leaf at a level >= file_depth.
NoLeafAtOrBelowFileDepth ==
  (Encoded /\ arg[2] > 0) =>
     \A i \in 1..Len(ShownNodes) :
        ShownNodes[i][3] => ShownNodes[i][1] < arg[2]

\* C7 (amended): with file_depth > 0 the output of to_repr and of to_md holds
\* no Leaf at a level > file_depth.
NoLeafBelowFileDepth ==
  (Encoded /\ arg[2] > 0) =>
     \A i \in 1..Len(ShownNodes) :
        ShownNodes[i][3] => ShownNodes[i][1] <= arg[2]

\* both encoders have cut a Leaf that lies below file_depth, from a tree
\* that also has a Leaf at file_depth
LeafTruncationWitness(o) ==
  /\ op = o
  /\ arg[2] > 0
  /\ \E n \in 1..Len(tree) : tree[n].is_leaf /\ LevelOf(tree, n) > arg[2]
                             /\ (arg[1] = 0 \/ LevelOf(tree, n) <= arg[1] + 1)
  /\ \E i \in 1..Len(ShownNodes) :
        ShownNodes[i][3] /\ ShownNodes[i][1] = arg[2]

LeafTruncatedInListing == LeafTruncationWitness("to_repr")

\* C8: with folder_depth > 0 the output of to_repr and of to_md holds no
\* Directory at a level > folder_depth and nothing below one, and holds
\* every other node that is within the caps: the nodes shown are, in order,
\* the nodes that are within the caps and below no node that is not.
DirectoryTruncation ==
  (Encoded /\ arg[1] > 0) =>
     /\ \A i \in 1..Len(ShownNodes) :
           ~ShownNodes[i][3] => ShownNodes[i][1] <= arg[1]
     /\ ShownNodes = ExpectedShown(tree, arg)

\* a Directory below folder_depth was cut from the diagram, and a Leaf
\* sibling of it is shown
DirectoryTruncatedInDiagram ==
  /\ op = "to_md"
  /\ arg[1] > 0
  /\ \E n, m \in 1..Len(tree) :
        /\ ~tree[n].is_leaf /\ LevelOf(tree, n) > arg[1]
        /\ tree[m].is_leaf /\ ParentOf(tree, m) = ParentOf(tree, n)
        /\ tree[m].name /= tree[n].name
        /\ \E i \in 1..Len(ShownNodes) :
              ShownNodes[i] = <<LevelOf(tree, m), tree[m].name, TRUE>>
  /\ Len(ShownNodes) < Len(tree)

---------------------------------------------------------------------------
(* The filesystem and the tree built from it.                              *)

FsParent(f, e) ==
  IF \E p \in 1..Len(f) : \E i \in 1..Len(f[p].children) : f[p].children[i] = e
  THEN CHOOSE p \in 1..Len(f) :
         \E i \in 1..Len(f[p].children) : f[p].children[i] = e
  ELSE 0

\* the names from the walk root down to an entry, the root's excluded
RECURSIVE FsParts(_, _)
FsParts(f, e) ==
  LET p == FsParent(f, e)
  IN  IF p = 0 THEN <<>> ELSE Append(FsParts(f, p), f[e].name)

RECURSIVE JoinAll(_, _)
JoinAll(path, parts) ==
  IF parts = <<>> THEN path ELSE JoinAll(PathJoin(path, Head(parts)), Tail(parts))

FsPathOf(f, e) == JoinAll(RootPath, FsParts(f, e))

\* the folder depth of a directory: the walk root is at 0
FolderDepth(f, e) == Len(FsParts(f, e))

NodeChild(h, n, name) ==
  IF \E i \in 1..Len(h[n].children) : h[h[n].children[i]].name = name
  THEN h[n].children[CHOOSE i \in 1..Len(h[n].children) :
                        h[h[n].children[i]].name = name]
  ELSE 0

\* the node reached from node n by a sequence of names, or 0
RECURSIVE NodeAt(_, _, _)
NodeAt(h, n, parts) ==
  IF parts = <<>> THEN n
  ELSE IF NodeChild(h, n, Head(parts)) = 0 THEN 0
  ELSE NodeAt(h, NodeChild(h, n, Head(parts)), Tail(parts))

Listed(w) == {w.listed[i] : i \in 1..Len(w.listed)}

\* the entry is met by the walk: its directory has been listed, and the
\* patterns do not ignore it
Found(f, w, e) ==
  LET p == FsParent(f, e)
      rel == RelPath(FsPathOf(f, e), w.root_path)
  IN  /\ ~f[p].denied
      /\ FsPathOf(f, p) \in Listed(w)
      /\ ~should_ignore(rel, IsDirFromCwd(f, w.root_path, rel, w.cwd_at_root),
                        w.ignore)

\* the entry has its node in the tree built, of its kind
Built(f, w, e) ==
  LET n == NodeAt(w.heap, 1, FsParts(f, e))
  IN  n /= 0 /\ w.heap[n].is_leaf = ~f[e].is_dir

\* the caps admit an entry met in a directory at folder depth d
Admitted(is_dir, d, depth) ==
  IF is_dir THEN depth[1] = 0 \/ d < depth[1]
  ELSE depth[2] = 0 \/ d < depth[2]

InTrimmedTree == pc \in {"build_depth", "ready"} /\ walk.kind = "TrimmedTree"

\* C9: in the tree TrimmedTree builds with caps (fd, ld), a directory met
\* while expanding a directory at folder depth d is included iff fd = 0 or
\* d < fd, a file met there iff ld = 0 or d < ld, nothing else is included,
\* and a directory that is not included is never listed.
DepthBoundedBuild ==
  InTrimmedTree =>
    LET found == {e \in 2..Len(fs) : Found(fs, walk, e)}
        built == {e \in found : Built(fs, walk, e)}
    IN  /\ \A e \in found :
             /\ e \in built
                  <=> Admitted(fs[e].is_dir, FolderDepth(fs, FsParent(fs, e)),
                               walk.depth)
             /\ (fs[e].is_dir /\ e \notin built)
                  => FsPathOf(fs, e) \notin Listed(walk)
        /\ Len(walk.heap) - 1 = Cardinality(built)

\* TrimmedTree has returned a tree in which, at folder depth 1, a directory
\* is included and a file is not, and a file at folder depth 0 is
DepthBoundedBuildWitness ==
  /\ pc = "ready"
  /\ walk.kind = "TrimmedTree"
  /\ walk.depth = <<2, 1>>
  /\ \E e1, e2 \in 2..Len(fs) :
        /\ FolderDepth(fs, FsParent(fs, e1)) = 1
        /\ FolderDepth(fs, FsParent(fs, e2)) = 1
        /\ fs[e1].is_dir /\ Found(fs, walk, e1) /\ Built(fs, walk, e1)
        /\ ~fs[e2].is_dir /\ Found(fs, walk, e2) /\ ~Built(fs, walk, e2)

---------------------------------------------------------------------------
(* The FileTree facade over a tree built from a directory.                 *)

\* the names of the directories and of the files the facade's trees are
\* built from
FacadeDirs == {<<"a">>, <<"b">>}
FacadeFiles == {<<"b">>, <<"t">>}
FacadeNames == FacadeDirs \cup FacadeFiles

\* the depth pairs the facade is given
FacadeDepths == {<<0, 0>>, <<1, 1>>, <<-1, 0>>, <<0, -1>>}

\* _build_tree_with_depth run to its end
RECURSIVE BuildLoopWithDepth(_, _)
BuildLoopWithDepth(f, w) ==
  IF w.stack = <<>> THEN w ELSE BuildLoopWithDepth(f, BuildStepWithDepth(f, w))

\* bisect.bisect_left(children, TreeNode(name)): TreeNode.__lt__ compares
\* the names; lo and hi count from 0
RECURSIVE BisectLoop(_, _, _, _, _)
BisectLoop(h, children, name, lo, hi) ==
  IF lo < hi
  THEN LET mid == (lo + hi) \div 2
       IN IF StrLess(h[children[mid + 1]].name, name)
          THEN BisectLoop(h, children, name, mid + 1, hi)
          ELSE BisectLoop(h, children, name, lo, mid)
  ELSE lo

bisect_left(h, children, name) == BisectLoop(h, children, name, 0, Len(children))

\* (variant) the name at the index is not compared
FoundAtAnyName(h, children, index, name) == index < Len(children)

\* index < len(children) and children[index].get_name() == name
FoundAt(h, children, index, name) ==
  index < Len(children) /\ h[children[index + 1]].name = name

\* sorted(names), of a set of str
RECURSIVE sorted(_)
sorted(names) ==
  IF names = {} THEN <<>>
  ELSE LET least == CHOOSE x \in names : \A y \in names : x = y \/ StrLess(x, y)
       IN <<least>> \o sorted(names \ {least})

\* the for loop of where over sorted(current_node.non_leaf_names)
RECURSIVE WherePush(_, _, _, _, _)
WherePush(h, stack, current_node, current_path, non_leaf_names) ==
  IF non_leaf_names = <<>> THEN stack
  ELSE
    LET non_leaf_name == Head(non_leaf_names)
        index == bisect_left(h, h[current_node].children, non_leaf_name)
        stack2 == IF FoundAt(h, h[current_node].children, index, non_leaf_name)
                  THEN Append(stack, <<h[current_node].children[index + 1],
                                       PathJoin(current_path, non_leaf_name)>>)
                  ELSE stack
    IN WherePush(h, stack2, current_node, current_path, Tail(non_leaf_names))

\* the while loop of where
RECURSIVE WhereLoop(_, _, _)
WhereLoop(h, stack, target) ==
  IF stack = <<>> THEN None
  ELSE
    LET current_node == stack[Len(stack)][1]
        current_path == stack[Len(stack)][2]
        popped == SubSeq(stack, 1, Len(stack) - 1)
        index == bisect_left(h, h[current_node].children, target)
    IN IF FoundAt(h, h[current_node].children, index, target)
       THEN PathJoin(current_path, target)
       ELSE WhereLoop(h, WherePush(h, popped, current_node, current_path,
                                   sorted(h[current_node].non_leaf_names)),
                      target)

\* FileTree.where(target) on the tree h of root path root_path
where(h, root_path, target) == WhereLoop(h, << <<1, root_path>> >>, target)

\* "Root Dir: "
RootDirHeader == <<"R", "o", "o", "t", SP, "D", "i", "r", ":", SP>>

\* FileTree.to_str(depth)
to_str(h, root_path, depth) ==
  LET t == to_repr(h, 1, 0, depth)
  IN IF t.ok THEN Ok(RootDirHeader \o root_path \o <<NL>> \o t.value)
     ELSE ValueError

\* FileTree.to_md(depth)
facade_to_md(h, depth) == to_md(h, 1, 0, FALSE, <<>>, depth)

\* the fence line dump_md writes, without its indentation
Fence == <<"tick", "tick", "tick", NL>>

\* FileTree.dump_md(file_path, append, indent, depth, title) on a file
\* holding old: what the call returns or raises, and what the file holds
\* after it
dump_md(h, old, append, indent, depth, title) ==
  LET indent_space == Repeat(<<SP>>, indent)
      opened == IF append THEN old ELSE <<>>
      titled == IF title /= None THEN opened \o title \o <<NL, NL>>
                ELSE opened
      fenced == titled \o indent_space \o Fence
      md_output == to_md(h, 1, 0, FALSE, indent_space, depth)
  IN IF md_output.ok
     THEN [ok |-> TRUE, value |-> None,
           file |-> fenced \o md_output.value \o <<NL>> \o indent_space
                      \o Fence]
     ELSE [ok |-> FALSE, value |-> <<>>, file |-> fenced]

\* the arguments dump_md is given: append, indent, depth, title, and what
\* the file held
DumpArgs ==
  {[old |-> old, append |-> append, indent |-> indent, depth |-> depth,
    title |-> title] :
     old \in {<<"x", NL>>}, append \in BOOLEAN, indent \in {0, 2},
     depth \in {<<0, 0>>, <<0, -1>>}, title \in {None, <<"T">>}}

InitFacade ==
  /\ tree = <<>>
  /\ op = "fs"
  /\ arg = None
  /\ res = Idle
  /\ fs = <<FsRoot>>
  /\ pc = "fs"
  /\ walk = NoWalk

\* the environment adds a file or a directory under the root path
FacadeFsCreate == FsCreateIn(MaxFacadeEntries, FacadeDirs, FacadeFiles, 0)

\* FileTree(root_path)
FacadeFileTree ==
  /\ pc = "fs"
  /\ PathExists(fs, RootPath)
  /\ walk' = BuildLoop(fs, NewWalk(RootPath, <<>>, TRUE, <<>>))
  /\ tree' = walk'.heap
  /\ pc' = "ready"
  /\ op' = "FileTree"
  /\ arg' = None
  /\ UNCHANGED <<res, fs>>

\* TrimmedTree(root_path, depth)
FacadeTrimmedTree ==
  /\ pc = "fs"
  /\ \E depth \in FacadeDepths :
       /\ LET w == BuildLoopWithDepth(fs,
                     NewWalkWithDepth(RootPath, depth, <<>>, TRUE))
          IN walk' = FinishTrimmedTree(fs, w)
       /\ arg' = depth
  /\ tree' = walk'.heap
  /\ pc' = "ready"
  /\ op' = "TrimmedTree"
  /\ UNCHANGED <<res, fs>>

\* tree.where(target)
Where ==
  /\ pc = "ready" /\ AtRest
  /\ \E target \in FacadeNames :
       /\ arg' = target
       /\ res' = [kind |-> "path", out |-> where(tree, walk.root_path, target)]
  /\ op' = "where"
  /\ UNCHANGED <<tree, fs, pc, walk>>

\* tree.to_str(depth)
ToStr ==
  /\ pc = "ready" /\ AtRest
  /\ \E depth \in FacadeDepths :
       /\ arg' = depth
       /\ res' = [kind |-> "text", out |-> to_str(tree, walk.root_path, depth)]
  /\ op' = "to_str"
  /\ UNCHANGED <<tree, fs, pc, walk>>

\* tree.to_md(depth)
FacadeToMd ==
  /\ pc = "ready" /\ AtRest
  /\ \E depth \in FacadeDepths :
       /\ arg' = depth
       /\ res' = [kind |-> "text", out |-> facade_to_md(tree, depth)]
  /\ op' = "to_md"
  /\ UNCHANGED <<tree, fs, pc, walk>>

\* tree.dump_md(file_path, append, indent, depth, title)
DumpMd ==
  /\ pc = "ready" /\ AtRest
  /\ \E a \in DumpArgs :
       /\ arg' = a
       /\ res' = [kind |-> "file",
                  out |-> dump_md(tree, a.old, a.append, a.indent, a.depth,
                                  a.title)]
  /\ op' = "dump_md"
  /\ UNCHANGED <<tree, fs, pc, walk>>

NextFacade ==
  \/ FacadeFsCreate
  \/ FacadeFileTree
  \/ FacadeTrimmedTree
  \/ Where
  \/ ToStr
  \/ FacadeToMd
  \/ DumpMd

SpecFacade == InitFacade /\ [][NextFacade]_vars

\* the nodes below the root that bear a name
Named(h, name) == {n \in 2..Len(h) : h[n].name = name}

\* the path of a node: the root path joined with the names from the root
\* down to it
RECURSIVE NodePath(_, _, _)
NodePath(h, root_path, n) ==
  IF n = 1 THEN root_path
  ELSE PathJoin(NodePath(h, root_path, ParentOf(h, n)), h[n].name)

\* C4: on a tree the builder made, where(target) returns not-found only if
\* no node below the root is named target, and otherwise the root path
\* joined with the names down to a node named target.
WhereFindsWhatExists ==
  (pc = "ready" /\ op = "where") =>
    IF Named(tree, arg) = {} THEN res.out = None
    ELSE \E n \in Named(tree, arg) :
           res.out = NodePath(tree, walk.root_path, n)

\* the Directory children of the root that have a node named target below
\* them
HoldingDirs(h, target) ==
  {d \in 2..Len(h) :
     /\ ParentOf(h, d) = 1
     /\ ~h[d].is_leaf
     /\ \E n \in Named(h, target) : n /= d /\ d \in AncestorsOrSelf(h, n)}

\* C5: when target is not a child of the root and lies below two Directory
\* children of the root, where(target) returns an occurrence below the one
\* of them whose name is least.
WhereDescendsAlphabetically ==
  (pc = "ready" /\ op = "where") =>
    LET held == HoldingDirs(tree, arg)
    IN (/\ Cardinality(held) >= 2
        /\ \A n \in Named(tree, arg) : ParentOf(tree, n) /= 1)
         => \E d \in held :
              /\ \A e \in held : e = d \/ StrLess(tree[d].name, tree[e].name)
              /\ res.out /= None
              /\ StartsWith(res.out,
                            NodePath(tree, walk.root_path, d) \o <<SLASH>>)

Negative(depth) == depth[1] < 0 \/ depth[2] < 0

\* C10: to_str, to_md and dump_md given a depth pair with a negative value
\* raise, and TrimmedTree given one returns no tree.
NegativeDepthRejected ==
  /\ (op \in {"to_str", "to_md"} /\ Negative(arg)) => ~res.out.ok
  /\ (op = "dump_md" /\ Negative(arg.depth)) => ~res.out.ok
  /\ (op = "TrimmedTree" /\ Negative(arg)) => pc /= "ready"

---------------------------------------------------------------------------
(* FileTree.create_subtree.                                                *)

Dot == <<".">>
DotDot == <<".", ".">>

\* sep.join(parts)
RECURSIVE JoinParts(_)
JoinParts(parts) ==
  IF Len(parts) = 1 THEN Head(parts)
  ELSE Head(parts) \o <<SLASH>> \o JoinParts(Tail(parts))

\* the body of the loop of posixpath.normpath for one component of a path
\* that does not start with a slash
NormComp(new_comps, comp) ==
  IF comp = <<>> \/ comp = Dot THEN new_comps
  ELSE IF \/ comp /= DotDot
          \/ new_comps = <<>>
          \/ new_comps[Len(new_comps)] = DotDot
  THEN Append(new_comps, comp)
  ELSE SubSeq(new_comps, 1, Len(new_comps) - 1)

RECURSIVE NormComps(_, _)
NormComps(comps, new_comps) ==
  IF comps = <<>> THEN new_comps
  ELSE NormComps(Tail(comps), NormComp(new_comps, Head(comps)))

\* os.path.normpath(relative_path)
normpath(path) ==
  LET comps == NormComps(SplitPath(path), <<>>)
  IN IF comps = <<>> THEN Dot ELSE JoinParts(comps)

\* (variant) a '..' part with nothing to pop is passed over
ConsumePartLenient(q, part) ==
  IF ~q.ok THEN q
  ELSE IF part = Dot THEN q
  ELSE IF part = DotDot
  THEN (IF q.path_queue = <<>> THEN q
        ELSE [q EXCEPT !.path_queue = SubSeq(@, 1, Len(@) - 1)])
  ELSE [q EXCEPT !.path_queue = Append(@, part)]

\* the body of the for loop of create_subtree over path_parts; q.ok is
\* FALSE once ValueError("Cannot navigate above the root directory.") is
\* raised
ConsumePart(q, part) ==
  IF ~q.ok THEN q
  ELSE IF part = Dot THEN q
  ELSE IF part = DotDot
  THEN (IF q.path_queue = <<>> THEN [q EXCEPT !.ok = FALSE]
        ELSE [q EXCEPT !.path_queue = SubSeq(@, 1, Len(@) - 1)])
  ELSE [q EXCEPT !.path_queue = Append(@, part)]

RECURSIVE ConsumeParts(_, _)
ConsumeParts(q, path_parts) ==
  IF path_parts = <<>> THEN q
  ELSE ConsumeParts(ConsumePart(q, Head(path_parts)), Tail(path_parts))

\* path_queue after the for loop of create_subtree
PathQueue(relative_path) ==
  ConsumeParts([ok |-> TRUE, path_queue |-> <<>>],
               SplitPath(normpath(relative_path)))

\* the entry the system reaches from entry e along the components of a
\* path, or 0: '.' and an empty component stay in a directory, '..' goes to
\* the directory that holds it
RECURSIVE FsResolveFrom(_, _, _)
FsResolveFrom(f, e, comps) ==
  IF comps = <<>> THEN e
  ELSE IF e = 0 \/ ~f[e].is_dir THEN 0
  ELSE IF Head(comps) = <<>> \/ Head(comps) = Dot
  THEN FsResolveFrom(f, e, Tail(comps))
  ELSE IF Head(comps) = DotDot
  THEN FsResolveFrom(f, FsParent(f, e), Tail(comps))
  ELSE FsResolveFrom(f, FsChild(f, e, Head(comps)), Tail(comps))

FsResolve(f, path) ==
  LET comps == SplitPath(path)
  IN IF f = <<>> \/ Head(comps) /= f[1].name THEN 0
     ELSE FsResolveFrom(f, 1, Tail(comps))

\* the results of create_subtree
AboveRootError == [kind |-> "error", raised |-> "ValueError",
                   message |-> "above_root", part |-> None]
InvalidPathError(part) == [kind |-> "error", raised |-> "ValueError",
                           message |-> "invalid_path", part |-> part]
NotExistError == [kind |-> "error", raised |-> "ValueError",
                  message |-> "not_exist", part |-> None]
NotADirectoryError == [kind |-> "error", raised |-> "NotADirectoryError",
                       message |-> "not_a_directory", part |-> None]
\* (variant) the root node FileTree(subtree_root_path) built is kept: a node
\* that is none of the nodes of the tree
SubtreeOfBuiltRoot(root_path, root_node) ==
  [kind |-> "facade", root_path |-> root_path, root_node |-> 0]

\* the facade returned: root_node is the node of the tree it refers to
Subtree(root_path, root_node) ==
  [kind |-> "facade", root_path |-> root_path, root_node |-> root_node]

\* (variant) the declared path is joined with the normalised relative path
SubtreeRootPathNormalised(root_path, relative_path) ==
  PathJoin(root_path, normpath(relative_path))

\* subtree_root_path = os.path.join(self.root_path, relative_path)
SubtreeRootPath(root_path, relative_path) == PathJoin(root_path, relative_path)

\* FileTree(subtree_root_path) with its root_node replaced by current_node:
\* the constructor checks that the path exists and lists it; the tree it
\* builds is dropped
NewSubtree(f, root_path, relative_path, current_node) ==
  LET subtree_root_path == SubtreeRootPath(root_path, relative_path)
      e == FsResolve(f, subtree_root_path)
  IN IF e = 0 THEN NotExistError
     ELSE IF ~f[e].is_dir THEN NotADirectoryError
     ELSE Subtree(subtree_root_path, current_node)

\* the parts the relative paths are made of, and the relative paths
SubtreeParts == {Dot, DotDot, <<"a">>, <<"b">>, <<"t">>}

RelativePathsOf(n) ==
  {JoinParts(parts) : parts \in [1..n -> SubtreeParts]}

RelativePaths(max_parts) == UNION {RelativePathsOf(n) : n \in 1..max_parts}

\* the environment adds a file or a directory under the root path
SubtreeFsCreate == FsCreateIn(MaxSubtreeEntries, FacadeDirs, FacadeFiles, 0)

\* tree.create_subtree(relative_path), up to the while loop: the path is
\* normalised and split, and the for loop fills path_queue or raises
CreateSubtree ==
  /\ pc = "ready" /\ AtRest
  /\ \E relative_path \in RelativePaths(MaxParts) :
       LET q == PathQueue(relative_path)
       IN /\ arg' = relative_path
          /\ IF q.ok
             THEN /\ walk' = [kind |-> "create_subtree",
                              root_path |-> walk.root_path,
                              relative_path |-> relative_path,
                              path_queue |-> q.path_queue,
                              current_node |-> 1]
                  /\ pc' = "navigate"
                  /\ res' = res
             ELSE /\ res' = AboveRootError
                  /\ pc' = "raised"
                  /\ walk' = walk
  /\ op' = "create_subtree"
  /\ UNCHANGED <<tree, fs>>

\* one iteration of the while loop of create_subtree
NavigateStep ==
  /\ pc = "navigate"
  /\ walk.path_queue /= <<>>
  /\ LET part == Head(walk.path_queue)
         children == tree[walk.current_node].children
         index == bisect_left(tree, children, part)
     IN IF FoundAt(tree, children, index, part)
        THEN /\ walk' = [walk EXCEPT !.path_queue = Tail(@),
                                     !.current_node = children[index + 1]]
             /\ UNCHANGED <<res, pc>>
        ELSE /\ res' = InvalidPathError(part)
             /\ pc' = "raised"
             /\ walk' = [walk EXCEPT !.path_queue = Tail(@)]
  /\ UNCHANGED <<tree, op, arg, fs>>

\* create_subtree after the while loop: the new FileTree is made and
\* returned
ReturnSubtree ==
  /\ pc = "navigate"
  /\ walk.path_queue = <<>>
  /\ res' = NewSubtree(fs, walk.root_path, walk.relative_path,
                       walk.current_node)
  /\ pc' = IF res'.kind = "facade" THEN "returned" ELSE "raised"
  /\ UNCHANGED <<tree, op, arg, fs, walk>>

NextSubtree ==
  \/ SubtreeFsCreate
  \/ FacadeFileTree
  \/ CreateSubtree
  \/ NavigateStep
  \/ ReturnSubtree

SpecSubtree == InitFacade /\ [][NextSubtree]_vars

\* the while loop of create_subtree stands before a part that names no
\* child of current_node
AtMissingPart ==
  /\ pc = "navigate"
  /\ walk.path_queue /= <<>>
  /\ NodeChild(tree, walk.current_node, Head(walk.path_queue)) = 0

PlainNames(relative_path) ==
  \A i \in 1..Len(SplitPath(relative_path)) :
    SplitPath(relative_path)[i] \notin {<<>>, Dot, DotDot}

\* create_subtree has ended, with a facade or an error
SubtreeEnded == pc \in {"raised", "returned"} /\ op = "create_subtree"

\* C12: on a tree the builder made, for a relative path of names each of
\* which is a child of the node the names before it lead to, create_subtree
\* does not raise the invalid-path error and resolves to that descendant.
ExistingPathResolves ==
  (/\ SubtreeEnded
   /\ PlainNames(arg)
   /\ NodeAt(tree, 1, SplitPath(arg)) /= 0)
    => /\ ~(res.kind = "error" /\ res.message = "invalid_path")
       /\ walk.current_node = NodeAt(tree, 1, SplitPath(arg))

\* the parts of a relative path read from left to right: '.' changes
\* nothing, '..' takes back the last name still held, a name is held; ok is
\* FALSE when a '..' finds no name to take back
RECURSIVE NamesHeld(_, _)
NamesHeld(parts, names) ==
  IF parts = <<>> THEN [ok |-> TRUE, names |-> names]
  ELSE IF Head(parts) = Dot THEN NamesHeld(Tail(parts), names)
  ELSE IF Head(parts) = DotDot
  THEN (IF names = <<>> THEN [ok |-> FALSE, names |-> <<>>]
        ELSE NamesHeld(Tail(parts), SubSeq(names, 1, Len(names) - 1)))
  ELSE NamesHeld(Tail(parts), Append(names, Head(parts)))

\* C13: a '..' part takes back the most recent name not yet taken back, a
\* '..' met when no name is left raises the cannot-navigate-above-root
\* error, and '.' parts change nothing: create_subtree goes on to resolve
\* exactly the names left, or raises that error.
AscentAboveRootRaises ==
  [][(pc = "ready" /\ op' = "create_subtree") =>
       LET held == NamesHeld(SplitPath(arg'), <<>>)
       IN IF held.ok
          THEN pc' = "navigate" /\ walk'.path_queue = held.names
          ELSE pc' = "raised" /\ res' = AboveRootError]_vars

\* create_subtree has raised the cannot-navigate-above-root error on a
\* path whose first '..' was met with a name to take back
AscentAboveRootWitness ==
  /\ pc = "raised"
  /\ res = AboveRootError
  /\ Len(SplitPath(arg)) = 3
  /\ SplitPath(arg)[1] \notin {Dot, DotDot}
  /\ SplitPath(arg)[2] = DotDot
  /\ SplitPath(arg)[3] = DotDot

\* the directory r/{a/{b}, t}: a directory a that holds one file, and one
\* file beside it, in either listing order
ExampleDirectory ==
  /\ Len(fs) = 4
  /\ FsChild(fs, 1, <<"a">>) /= 0
  /\ fs[FsChild(fs, 1, <<"a">>)].is_dir
  /\ FsChild(fs, 1, <<"t">>) /= 0
  /\ ~fs[FsChild(fs, 1, <<"t">>)].is_dir
  /\ FsChild(fs, FsChild(fs, 1, <<"a">>), <<"b">>) /= 0
  /\ ~fs[FsChild(fs, FsChild(fs, 1, <<"a">>), <<"b">>)].is_dir

\* "a/.."
UpFromA == <<"a", SLASH, ".", ".">>

\* create_subtree("a/..") has ended on the tree built from r/{a/{b}, t}
UpFromAEnded == SubtreeEnded /\ arg = UpFromA /\ ExampleDirectory

\* C14 as stated: on the tree built from r/{a/{b}, t}, create_subtree("a/..")
\* ends in an error.
UpFromAFails == UpFromAEnded => res.kind = "error"

\* C14 as amended: on the tree built from r/{a/{b}, t}, create_subtree("a/..")
\* returns a facade whose root node is the root node of the tree and whose
\* root_path is r/a/..
UpFromAReturnsRoot ==
  UpFromAEnded => res = Subtree(RootPath \o <<SLASH>> \o UpFromA, 1)

UpFromAWitness == UpFromAEnded /\ res.kind = "facade" /\ Len(tree) = 4

\* C15: when create_subtree returns, the root_node of the facade returned
\* is the node of the tree that the names left in the path lead to, its
\* root_path is the root_path of the tree joined with the relative path as
\* given, and the tree and its root_path are as they were.
SubtreeAliases ==
  /\ [](pc = "returned" =>
          /\ res.root_node \in 1..Len(tree)
          /\ res.root_node
               = NodeAt(tree, 1, NamesHeld(SplitPath(arg), <<>>).names)
          /\ res.root_path = RootPath \o <<SLASH>> \o arg)
  /\ [][op' = "create_subtree" =>
          /\ tree' = tree
          /\ walk'.root_path = walk.root_path]_vars

\* a facade is returned for a node below the root, on a path with a '.' or
\* a '..' part
SubtreeAliasesWitness ==
  /\ pc = "returned"
  /\ res.root_node /= 1
  /\ ~PlainNames(arg)

---------------------------------------------------------------------------
(* FileTree.from_md: a diagram between two fence lines.                    *)

\* '```'
Ticks == <<"tick", "tick", "tick">>

\* p in s
RECURSIVE Contains(_, _)
Contains(s, p) ==
  IF Len(s) < Len(p) THEN FALSE
  ELSE StartsWith(s, p) \/ Contains(Tail(s), p)

\* the for loop of FileTree.from_md over enumerate(lines), from index i
\* (counted from 0); None is kept for an index not found
RECURSIVE FindFences(_, _, _)
FindFences(lines, i, found) ==
  IF i >= Len(lines) THEN found
  ELSE IF Contains(lines[i + 1], Ticks)
  THEN (IF found.start_idx = None
        THEN FindFences(lines, i + 1, [found EXCEPT !.start_idx = <<i>>])
        ELSE [found EXCEPT !.end_idx = <<i>>])
  ELSE FindFences(lines, i + 1, found)

\* len(line) - len(line.lstrip())
FenceIndent(line) == Len(line) - Len(LStrip(line))

\* (variant) only a closing fence indented less than the opening one is
\* refused
IndentMismatchIfLess(start_indent, end_indent) == end_indent < start_indent

\* start_indent != end_indent
IndentMismatch(start_indent, end_indent) == start_indent /= end_indent

\* "\n".join(line[indent_length:].rstrip() for line in lines)
RECURSIVE MdContent(_, _)
MdContent(lines, indent_length) ==
  IF lines = <<>> THEN <<>>
  ELSE LET line == RStrip(SubSeq(Head(lines), indent_length + 1,
                                 Len(Head(lines))))
       IN IF Len(lines) = 1 THEN line
          ELSE line \o <<NL>> \o MdContent(Tail(lines), indent_length)

\* the results of FileTree.from_md
Raised(raised, message) ==
  [kind |-> "error", raised |-> raised, message |-> message]
Decoded(root_path, heap) ==
  [kind |-> "tree", root_path |-> root_path, heap |-> heap]
ReturnedNone == [kind |-> "None"]

\* (variant) the facade is made whether or not the path is on disk
DecodedFileTreeUnchecked(f, root_path, heap) == Decoded(root_path, heap)

\* FileTree(root_path) with its root_node replaced by the node tree decoded
DecodedFileTree(f, root_path, heap) ==
  IF FsResolve(f, root_path) = 0 THEN Raised("ValueError", "not_exist")
  ELSE IF ~f[FsResolve(f, root_path)].is_dir
  THEN Raised("NotADirectoryError", "not_a_directory")
  ELSE Decoded(root_path, heap)

\* FileTree.from_md(md_str), with the directories of f on disk
facade_from_md(f, md_str) ==
  LET lines == SplitLines(md_str)
      found == FindFences(lines, 0, [start_idx |-> None, end_idx |-> None])
  IN IF lines = <<>> THEN ReturnedNone
     ELSE IF found.start_idx = None \/ found.end_idx = None
     THEN Raised("ValueError", "missing_markers")
     ELSE
       LET start_idx == found.start_idx[1]
           end_idx == found.end_idx[1]
           start_indent == FenceIndent(lines[start_idx + 1])
           end_indent == FenceIndent(lines[end_idx + 1])
           md_content == MdContent(SubSeq(lines, start_idx + 2, end_idx),
                                   start_indent)
           root_node == from_md(md_content)
       IN IF IndentMismatch(start_indent, end_indent)
          THEN Raised("ValueError", "inconsistent_indentation")
          ELSE IF root_node = <<>>
          THEN Raised("AttributeError", "none_has_no_get_name")
          ELSE DecodedFileTree(f, root_node[1].name, root_node)

\* the indentations and the lines the texts decoded are made of: a fence, a
\* root line and the line of a last child
Indents == {0, 2, 4}

MdLineBodies == {Ticks, RootPath \o <<SLASH>>, LastConn \o <<"t">>}

MdLines == {Repeat(<<SP>>, n) \o b : n \in Indents, b \in MdLineBodies}

\* "\n".join(lines)
RECURSIVE JoinLines(_)
JoinLines(lines) ==
  IF Len(lines) = 1 THEN Head(lines)
  ELSE Head(lines) \o <<NL>> \o JoinLines(Tail(lines))

MdTexts(max_lines) ==
  UNION {{JoinLines(lines) : lines \in [1..n -> MdLines]} : n \in 1..max_lines}

\* what is on disk when a text is decoded: nothing of the name of the root
\* line, a directory of that name, or a file of that name
InitDecode ==
  /\ tree = <<>>
  /\ op = "fs"
  /\ arg = None
  /\ res = Idle
  /\ fs \in {<<>>, <<FsRoot>>, <<[FsRoot EXCEPT !.is_dir = FALSE]>>}
  /\ pc = "fs"
  /\ walk = NoWalk

\* FileTree.from_md(md_str)
FacadeFromMd ==
  /\ AtRest
  /\ \E md_str \in MdTexts(MaxLines) :
       /\ arg' = md_str
       /\ res' = facade_from_md(fs, md_str)
  /\ tree' = IF res'.kind = "tree" THEN res'.heap ELSE tree
  /\ op' = "from_md"
  /\ pc' = IF res'.kind = "error" THEN "raised" ELSE "returned"
  /\ UNCHANGED <<fs, walk>>

NextDecode == FacadeFromMd

SpecDecode == InitDecode /\ [][NextDecode]_vars

\* the lines of the text that hold a fence, in order
FenceLinesFrom(lines) ==
  SelectSeq(lines, LAMBDA line : Contains(line, Ticks))

FenceLines == FenceLinesFrom(SplitLines(arg))

\* C16: a text whose first two lines holding a fence have different
\* amounts of leading whitespace makes FileTree.from_md raise the format
\* error and return no tree.
FenceIndentationChecked ==
  (/\ op = "from_md"
   /\ Len(FenceLines) >= 2
   /\ LeadingSpaces(FenceLines[1]) /= LeadingSpaces(FenceLines[2]))
    => res = Raised("ValueError", "inconsistent_indentation")

\* the text refused holds, between an opening fence indented by 2 and a
\* closing fence indented by 4, the diagram of a root and its child
FenceIndentationWitness ==
  /\ op = "from_md"
  /\ arg = JoinLines(<<Repeat(<<SP>>, 2) \o Ticks,
                       Repeat(<<SP>>, 2) \o RootPath \o <<SLASH>>,
                       Repeat(<<SP>>, 2) \o LastConn \o <<"t">>,
                       Repeat(<<SP>>, 4) \o Ticks>>)
  /\ fs = <<FsRoot>>
  /\ res.kind = "error"

---------------------------------------------------------------------------
(* What the builders return, against what is on disk.                      *)

\* the entries from entry e up to the entry below the walk root
RECURSIVE FsChain(_, _)
FsChain(f, e) ==
  IF e = 1 \/ FsParent(f, e) = 0 THEN {}
  ELSE {e} \cup FsChain(f, FsParent(f, e))

\* the patterns of the walk ignore the entry
Ignored(f, w, e) ==
  LET rel == RelPath(FsPathOf(f, e), w.root_path)
  IN should_ignore(rel, IsDirFromCwd(f, w.root_path, rel, w.cwd_at_root),
                   w.ignore)

\* the entry can be come to: every directory above it can be listed, and
\* neither it nor a directory above it is ignored or cut by the caps
Reachable(f, w, e) ==
  \A x \in FsChain(f, e) :
    /\ ~f[FsParent(f, x)].denied
    /\ ~Ignored(f, w, x)
    /\ Admitted(f[x].is_dir, FolderDepth(f, FsParent(f, x)), w.depth)

\* a build has returned
BuildReturned == pc = "ready" /\ walk.kind \in {"FileTree", "TrimmedTree"}

\* C17: when listing a directory is denied during a build, the build
\* returns a tree in which that directory is a Directory node with no
\* children, and every entry that can be come to through directories that
\* can be listed has its node.
PermissionDeniedAbsorbed ==
  BuildReturned =>
    \A e \in 1..Len(fs) :
      /\ (fs[e].is_dir /\ fs[e].denied /\ FsPathOf(fs, e) \in Listed(walk))
           => LET n == NodeAt(walk.heap, 1, FsParts(fs, e))
              IN /\ n /= 0
                 /\ ~walk.heap[n].is_leaf
                 /\ walk.heap[n].children = <<>>
      /\ (e /= 1 /\ Reachable(fs, walk, e)) => Built(fs, walk, e)

\* a build has returned after the listing of a directory was denied, and
\* a directory beside it, listed once the denial was met, has its entry
\* built
PermissionDeniedWitness ==
  /\ BuildReturned
  /\ \E e, x, y \in 2..Len(fs) :
       /\ fs[e].denied
       /\ FsPathOf(fs, e) \in Listed(walk)
       /\ FsParent(fs, x) = FsParent(fs, e)
       /\ x /= e
       /\ FsParent(fs, y) = x
       /\ Built(fs, walk, y)
       /\ \E i, j \in 1..Len(fs[FsParent(fs, e)].children) :
            /\ i < j
            /\ fs[FsParent(fs, e)].children[i] = x
            /\ fs[FsParent(fs, e)].children[j] = e

---------------------------------------------------------------------------
(* The diagram of to_md, line by line.                                     *)

\* the line of a node after what precedes its name
NameShown(h, n) == h[n].name \o (IF h[n].is_leaf THEN <<>> ELSE <<SLASH>>)

\* the lines below a Directory: those of its children within the caps, each
\* with the connector of its place among them, followed by the lines below
\* it under the prefix that place gives
RECURSIVE LinesBelow(_, _, _, _)
RECURSIVE LinesOfChildren(_, _, _, _)
LinesBelow(h, n, depth, line_prefix) ==
  LinesOfChildren(h, SelectSeq(h[n].children,
                               LAMBDA c : WithinCaps(h, c, depth)),
                  depth, line_prefix)

LinesOfChildren(h, shown, depth, line_prefix) ==
  IF shown = <<>> THEN <<>>
  ELSE
    LET c == Head(shown)
        last == Len(shown) = 1
    IN << line_prefix \o (IF last THEN LastConn ELSE MidConn)
            \o NameShown(h, c) >>
       \o LinesBelow(h, c, depth,
                     line_prefix \o (IF last THEN Indent4 ELSE ContPrefix))
       \o LinesOfChildren(h, Tail(shown), depth, line_prefix)

\* C18: in the output of to_md, among the lines of the children of one
\* Directory that the caps leave, the last carries the last-child connector
\* and each earlier one the middle connector, and the lines below a child
\* are prefixed with 4 spaces if it was the last and with the bar and 3
\* spaces otherwise.
ConnectorsFollowShownChildren ==
  op = "to_md" =>
    /\ res.out.ok
    /\ res.out.value
         = JoinLines(<<NameShown(tree, 1)>> \o LinesBelow(tree, 1, arg, <<>>))

\* the diagram was made of a tree in which the last stored child of a
\* Directory is cut by a cap and a child stored before it is shown
ConnectorsWitness ==
  /\ op = "to_md"
  /\ \E n, c, d \in 1..Len(tree) :
       /\ Len(tree[n].children) >= 2
       /\ tree[n].children[Len(tree[n].children)] = c
       /\ ~WithinCaps(tree, c, arg)
       /\ d /= c
       /\ ParentOf(tree, d) = n
       /\ WithinCaps(tree, d, arg)
       /\ \A m \in AncestorsOrSelf(tree, n) : WithinCaps(tree, m, arg)

\* the pattern matcher ignores the entry: its path from the walk root, with
\* the separator after it when it is a directory, against the patterns
IgnoredEntry(f, w, e) ==
  LET rel == JoinParts(FsParts(f, e))
  IN should_ignore(rel, IsDirFromCwd(f, w.root_path, rel, w.cwd_at_root),
                   w.ignore)

\* neither the entry nor a directory above it, below the walk root, is
\* ignored
KeptByPatterns(f, w, e) ==
  \A x \in FsChain(f, e) : ~IgnoredEntry(f, w, x)

\* every directory above the entry can be listed
Enumerable(f, e) == \A x \in FsChain(f, e) : ~f[FsParent(f, x)].denied

FileTreeReturned == pc = "ready" /\ walk.kind = "FileTree"

\* C19 as stated: the unbounded build ends with the stack empty, and the
\* tree holds exactly one node, of its kind and under its parent, for each
\* entry such that neither it nor a directory above it is ignored.
BuildEqualsFiltered ==
  FileTreeReturned =>
    /\ walk.stack = <<>>
    /\ \A e \in 2..Len(fs) :
         Built(fs, walk, e) <=> KeptByPatterns(fs, walk, e)
    /\ Len(walk.heap) - 1
         = Cardinality({e \in 2..Len(fs) : KeptByPatterns(fs, walk, e)})

\* C19 as amended: the same, for the entries below directories that can
\* all be listed.
BuildEqualsFilteredEnumerable ==
  FileTreeReturned =>
    LET kept == {e \in 2..Len(fs) :
                   KeptByPatterns(fs, walk, e) /\ Enumerable(fs, e)}
    IN /\ walk.stack = <<>>
       /\ \A e \in 2..Len(fs) : Built(fs, walk, e) <=> e \in kept
       /\ Len(walk.heap) - 1 = Cardinality(kept)

\* the build has returned a tree without the entry a of an ignored
\* directory b, which the later pattern !b/a matches, and with an entry
\* beside b
BuildEqualsFilteredWitness ==
  /\ FileTreeReturned
  /\ Len(walk.ignore) = 2
  /\ \E b, a, x \in 2..Len(fs) :
       /\ FsParent(fs, b) = 1 /\ fs[b].name = <<"b">> /\ fs[b].is_dir
       /\ FsParent(fs, a) = b /\ fs[a].name = <<"a">>
       /\ ~IgnoredEntry(fs, walk, a)
       /\ ~Built(fs, walk, a)
       /\ FsParent(fs, x) = 1 /\ Built(fs, walk, x)

\* C20: a directory-only pattern excludes the directory of that name from
\* the tree a build returns, wherever the working directory of the process
\* is: under the pattern b/ no directory b of the walk root has a node.
DirectoryOnlyPatternExcludes ==
  FileTreeReturned /\ walk.ignore = << <<"b", SLASH>> >> =>
    \A e \in 2..Len(fs) :
      FsParent(fs, e) = 1 /\ fs[e].name = <<"b">> /\ fs[e].is_dir
        => ~Built(fs, walk, e)

---------------------------------------------------------------------------
(* A directory built with caps and listed whole, then built whole and      *)
(* listed with the same caps.                                              *)

AgreeEnvs == TrimmedEnvs

AgreeFsCreate == FsCreateIn(MaxAgreeEntries, BuildNames, BuildNames, MaxDenied)

\* trimmed = TrimmedTree(root_path, depth, ignore)
AgreeTrimmedTree ==
  /\ pc = "fs"
  /\ \E depth \in BuildCaps, env \in AgreeEnvs :
       /\ LET w == BuildLoopWithDepth(fs,
                     NewWalkWithDepth(RootPath, depth, env[1], env[2]))
          IN walk' = FinishTrimmedTree(fs, w)
       /\ arg' = [depth |-> depth, ignore |-> env[1], cwd_at_root |-> env[2]]
  /\ tree' = walk'.heap
  /\ pc' = "trimmed"
  /\ op' = "TrimmedTree"
  /\ UNCHANGED <<res, fs>>

\* trimmed.to_str((0, 0))
AgreeTrimmedToStr ==
  /\ pc = "trimmed"
  /\ res' = [kind |-> "text", out |-> to_str(tree, walk.root_path, <<0, 0>>)]
  /\ pc' = "listed"
  /\ op' = "to_str"
  /\ UNCHANGED <<tree, arg, fs, walk>>

\* full = FileTree(root_path, ignore)
AgreeFileTree ==
  /\ pc = "listed"
  /\ PathExists(fs, RootPath)
  /\ walk' = BuildLoop(fs, NewWalk(RootPath, arg.ignore, arg.cwd_at_root, <<>>))
  /\ tree' = walk'.heap
  /\ pc' = "full"
  /\ op' = "FileTree"
  /\ UNCHANGED <<arg, res, fs>>

\* full.to_str(depth); the listing of the trimmed tree is kept beside it
AgreeToStr ==
  /\ pc = "full"
  /\ res' = [kind |-> "texts", trimmed |-> res.out,
             full |-> to_str(tree, walk.root_path, arg.depth)]
  /\ pc' = "compared"
  /\ op' = "to_str"
  /\ UNCHANGED <<tree, arg, fs, walk>>

NextAgree ==
  \/ AgreeFsCreate
  \/ AgreeTrimmedTree
  \/ AgreeTrimmedToStr
  \/ AgreeFileTree
  \/ AgreeToStr

SpecAgree == InitBuild /\ [][NextAgree]_vars

\* C21: for the same directory, ignore patterns and non-negative depth
\* pair, the listing with depth (0, 0) of the tree TrimmedTree builds with
\* the pair is, line for line, the listing with the pair of the tree
\* FileTree builds.
TrimmedListingAgrees ==
  pc = "compared" =>
    /\ res.trimmed.ok /\ res.full.ok
    /\ SplitLines(res.trimmed.value) = SplitLines(res.full.value)

\* both listings are made under two different positive caps, they show an
\* entry below the root, and the whole tree holds nodes they do not show
TrimmedListingWitness ==
  /\ pc = "compared"
  /\ arg.depth[1] > 0 /\ arg.depth[2] > 0 /\ arg.depth[1] /= arg.depth[2]
  /\ res.full.ok
  /\ Len(SplitLines(res.full.value)) >= 3
  /\ Len(tree) > Len(SplitLines(res.full.value)) - 1

---------------------------------------------------------------------------
(* The decoders of the facade, with a directory, a file or nothing of the  *)
(* decoded name on disk.                                                   *)

\* FileTree.from_str(repr_str), with the directories of f on disk
facade_from_str(f, repr_str) ==
  LET lines == SplitLines(Strip(repr_str))
  IN IF Len(lines) < 2 THEN ReturnedNone
     ELSE LET root_path == Strip(Remove(lines[1], RootDirHeader))
              repr_content == JoinLines(Tail(lines))
              root_node == from_repr(repr_content)
          IN DecodedFileTree(f, root_path, root_node)

\* FileTree.from_dict(tree_dict, root_path), with the directories of f on
\* disk; tree_dict is [dicts, result], the heap of dicts and the dict given
facade_from_dict(f, tree_dict, root_path) ==
  IF tree_dict.dicts[tree_dict.result] = <<>> THEN ReturnedNone
  ELSE LET root_node == from_dict(tree_dict.dicts, tree_dict.result)
       IN DecodedFileTree(f, IF root_path = None THEN root_node[1].name
                             ELSE root_path,
                          root_node)

\* the root names decoded: the one on disk and one that is not
MissingPath == <<"m">>

RebuildRoots == {RootPath, MissingPath}

\* the node trees the texts and the dicts decoded are encoded from
RebuildTrees ==
  {NewTree(name, FALSE) : name \in RebuildRoots}
    \cup {add_child(NewTree(name, FALSE), 1, <<"t">>, TRUE) :
            name \in RebuildRoots}

\* listings under each header, a header alone, and the empty text
StrTexts ==
  {to_str(h, root_path, <<0, 0>>).value :
     h \in RebuildTrees, root_path \in RebuildRoots}
    \cup {RootDirHeader \o root_path : root_path \in RebuildRoots}
    \cup {<<>>}

\* fenced diagrams, a diagram without fences, two fences with nothing
\* between them, and the empty text
DiagramTexts ==
  {Ticks \o <<NL>> \o facade_to_md(h, <<0, 0>>).value \o <<NL>> \o Ticks :
     h \in RebuildTrees}
    \cup {facade_to_md(h, <<0, 0>>).value : h \in RebuildTrees}
    \cup {Ticks \o <<NL>> \o Ticks, <<>>}

\* the dicts of the trees and the empty dict, with each root_path argument
DictArgs ==
  {[tree_dict |-> d, root_path |-> root_path] :
     d \in {to_dict(h, 1) : h \in RebuildTrees}
            \cup {[dicts |-> << <<>> >>, result |-> 1]},
     root_path \in {None} \cup RebuildRoots}

RebuildFsCreate ==
  FsCreateIn(MaxRebuildEntries, {<<"a">>}, {<<"b">>, <<"t">>}, 0)

\* the call of a decoder has returned or raised
Rebuilt(name, input, result) ==
  /\ AtRest
  /\ arg' = input
  /\ res' = result
  /\ tree' = IF result.kind = "tree" THEN result.heap ELSE tree
  /\ op' = name
  /\ pc' = IF result.kind = "error" THEN "raised" ELSE "returned"
  /\ UNCHANGED <<fs, walk>>

\* FileTree.from_str(repr_str)
RebuildFromStr ==
  \E repr_str \in StrTexts :
    Rebuilt("from_str", repr_str, facade_from_str(fs, repr_str))

\* FileTree.from_md(md_str)
RebuildFromMd ==
  \E md_str \in DiagramTexts :
    Rebuilt("from_md", md_str, facade_from_md(fs, md_str))

\* FileTree.from_dict(tree_dict, root_path)
RebuildFromDict ==
  \E a \in DictArgs :
    Rebuilt("from_dict", a, facade_from_dict(fs, a.tree_dict, a.root_path))

NextRebuild ==
  \/ RebuildFsCreate
  \/ RebuildFromStr
  \/ RebuildFromMd
  \/ RebuildFromDict

SpecRebuild == InitDecode /\ [][NextRebuild]_vars

Decoding == op \in {"from_str", "from_md", "from_dict"}

\* the lines of the text between its first two fence lines
BetweenFences(lines) ==
  LET fences == {i \in 1..Len(lines) : Contains(lines[i], Ticks)}
      first == CHOOSE i \in fences : \A j \in fences : i <= j
      second == CHOOSE i \in fences \ {first} :
                  \A j \in fences \ {first} : i <= j
  IN IF Cardinality(fences) < 2 THEN <<>>
     ELSE SubSeq(lines, first + 1, second - 1)

\* the node tree the input given encodes; <<>> when it encodes none
DecodedNodes ==
  IF op = "from_str"
  THEN LET lines == SplitLines(Strip(arg))
       IN IF Len(lines) < 2 THEN <<>> ELSE from_repr(JoinLines(Tail(lines)))
  ELSE IF op = "from_md"
  THEN LET lines == BetweenFences(SplitLines(arg))
       IN IF lines = <<>> THEN <<>> ELSE from_md(JoinLines(lines))
  ELSE IF arg.tree_dict.dicts[arg.tree_dict.result] = <<>> THEN <<>>
  ELSE from_dict(arg.tree_dict.dicts, arg.tree_dict.result)

\* the root path the input given names, in a tuple; <<>> when it names
\* none: the path of the header line, the name of the decoded root node,
\* the root_path argument
NamedRootPath ==
  IF op = "from_str"
  THEN LET lines == SplitLines(Strip(arg))
       IN IF lines = <<>> THEN <<>>
          ELSE <<Strip(Remove(lines[1], RootDirHeader))>>
  ELSE IF op = "from_md"
  THEN (IF DecodedNodes = <<>> THEN <<>> ELSE <<DecodedNodes[1].name>>)
  ELSE IF arg.root_path /= None THEN <<arg.root_path>>
  ELSE IF DecodedNodes = <<>> THEN <<>>
  ELSE <<DecodedNodes[1].name>>

OnDisk(path) == FsResolve(fs, path) /= 0

====
